---- MODULE Spec2Model ----
(***************************************************************************)
(* A model of xmlmapper.XMLMapper (src/xmlmapper/xmlmapper.py): the        *)
(* compilation of a mapping specification in the constructor, and the      *)
(* depth-first walk of load_file / _load_mapping over a parsed document.   *)
(*                                                                         *)
(* Python strings are sequences of one-character strings, so that the      *)
(* query regex, str.strip, str.lower, str.startswith, sorted() and the     *)
(* int/float conversions are computed character by character.              *)
(***************************************************************************)
EXTENDS Integers, Sequences, FiniteSets, TLC

(***************************************************************************)
(* Bounds of the model.                                                    *)
(***************************************************************************)
\* how many load calls one thread makes on the mapper
MaxLoads == 2
\* how many children the generated documents put under the root element
MaxTop == 2

(***************************************************************************)
(* Characters and strings.                                                 *)
(***************************************************************************)
Digits == <<"0", "1", "2", "3", "4", "5", "6", "7", "8", "9">>

UpperCase == <<"A", "B", "C", "D", "E", "F", "G", "H", "I", "J", "K", "L", "M",
               "N", "O", "P", "Q", "R", "S", "T", "U", "V", "W", "X", "Y", "Z">>

LowerCase == <<"a", "b", "c", "d", "e", "f", "g", "h", "i", "j", "k", "l", "m",
               "n", "o", "p", "q", "r", "s", "t", "u", "v", "w", "x", "y", "z">>

\* the characters the model's strings use, in code point order
CharOrder ==
    <<"\n", " ", "#", "(", ")", "+", "-", ".", "/">> \o Digits \o <<":", "@">>
        \o UpperCase \o <<"_">> \o LowerCase

Range(s) == {s[i] : i \in DOMAIN s}

Ord(c) == CHOOSE i \in DOMAIN CharOrder : CharOrder[i] = c

DigitChars == Range(Digits)

\* \w of the re module
WordChars == DigitChars \cup Range(UpperCase) \cup Range(LowerCase) \cup {"_"}

\* \s of the re module, and what str.strip() removes
SpaceChars == {" ", "\n"}

Min(S) == CHOOSE x \in S : \A y \in S : x <= y

Max(S) == CHOOSE x \in S : \A y \in S : x >= y

\* str.strip()
Strip(s) ==
    LET keep == {i \in DOMAIN s : s[i] \notin SpaceChars}
    IN  IF keep = {} THEN <<>> ELSE SubSeq(s, Min(keep), Max(keep))

LowerChar(c) ==
    IF c \in Range(UpperCase)
    THEN LowerCase[CHOOSE i \in DOMAIN UpperCase : UpperCase[i] = c]
    ELSE c

\* str.lower()
Lower(s) == [i \in DOMAIN s |-> LowerChar(s[i])]

\* s < t for two Python strings (code point order, a prefix first)
StrLess(s, t) ==
    \E i \in 1..(Len(t)) :
        /\ \A j \in 1..(i - 1) : j <= Len(s) /\ s[j] = t[j]
        /\ \/ i = Len(s) + 1
           \/ i <= Len(s) /\ Ord(s[i]) < Ord(t[i])

\* sorted(keys): the keys of a dict in ascending order
RECURSIVE Sorted(_)
RECURSIVE Sorted_descending(_)
\* a slip in sorted(keys): sorted(keys, reverse=True)
Sorted_descending(S) ==
    IF S = {} THEN <<>>
    ELSE LET m == CHOOSE x \in S : \A y \in S \ {x} : StrLess(y, x)
         IN  <<m>> \o Sorted_descending(S \ {m})

Sorted(S) ==
    IF S = {} THEN <<>>
    ELSE LET m == CHOOSE x \in S : \A y \in S \ {x} : StrLess(x, y)
         IN  <<m>> \o Sorted(S \ {m})

\* str.startswith('_')
StartsWithUnderscore(s) == Len(s) > 0 /\ s[1] = "_"

\* a run of digits, single underscores allowed between them (PEP 515)
DigitRun(s) ==
    /\ Len(s) > 0
    /\ \A i \in DOMAIN s : s[i] \in DigitChars \cup {"_"}
    /\ s[1] # "_" /\ s[Len(s)] # "_"
    /\ \A i \in 1..(Len(s) - 1) : ~(s[i] = "_" /\ s[i + 1] = "_")

Unsigned(s) == IF Len(s) > 0 /\ s[1] \in {"+", "-"} THEN Tail(s) ELSE s

\* whether int(s) returns for the string s (it raises ValueError otherwise)
IsIntLiteral(s) == DigitRun(Unsigned(Strip(s)))

DigitValue(c) == (CHOOSE i \in DOMAIN Digits : Digits[i] = c) - 1

RECURSIVE DigitsValue(_, _)
DigitsValue(s, acc) ==
    IF s = <<>> THEN acc
    ELSE IF s[1] = "_" THEN DigitsValue(Tail(s), acc)
    ELSE DigitsValue(Tail(s), 10 * acc + DigitValue(s[1]))

\* int(s) for a literal s
IntValue(s) ==
    LET t == Strip(s)
        n == DigitsValue(Unsigned(t), 0)
    IN  IF t[1] = "-" THEN 0 - n ELSE n

\* the part of a float literal before the exponent
IsMantissa(m) ==
    LET dots == {i \in DOMAIN m : m[i] = "."}
    IN  IF dots = {} THEN DigitRun(m)
        ELSE /\ Cardinality(dots) = 1
             /\ LET d  == Min(dots)
                    ip == SubSeq(m, 1, d - 1)
                    fp == SubSeq(m, d + 1, Len(m))
                IN  /\ ip = <<>> \/ DigitRun(ip)
                    /\ fp = <<>> \/ DigitRun(fp)
                    /\ ~(ip = <<>> /\ fp = <<>>)

\* whether float(s) returns for the string s (it raises ValueError otherwise)
IsFloatLiteral(s) ==
    LET b  == Unsigned(Lower(Strip(s)))
        es == {i \in DOMAIN b : b[i] = "e"}
    IN  \/ b \in {<<"i", "n", "f">>, <<"n", "a", "n">>,
                  <<"i", "n", "f", "i", "n", "i", "t", "y">>}
        \/ es = {} /\ IsMantissa(b)
        \/ /\ Cardinality(es) = 1
           /\ IsMantissa(SubSeq(b, 1, Min(es) - 1))
           /\ DigitRun(Unsigned(SubSeq(b, Min(es) + 1, Len(b))))

(***************************************************************************)
(* Literals.                                                               *)
(***************************************************************************)
K_type == <<"_", "t", "y", "p", "e">>
K_match == <<"_", "m", "a", "t", "c", "h">>
K_id == <<"_", "i", "d">>
T_string == <<"s", "t", "r", "i", "n", "g">>
T_int == <<"i", "n", "t">>
T_float == <<"f", "l", "o", "a", "t">>
T_bool == <<"b", "o", "o", "l">>
S_true == <<"t", "r", "u", "e">>
S_false == <<"f", "a", "l", "s", "e">>
S_True == <<"T", "r", "u", "e">>
S_False == <<"F", "a", "l", "s", "e">>
S_None == <<"N", "o", "n", "e">>
S_boolean == <<"b", "o", "o", "l", "e", "a", "n">>

(***************************************************************************)
(* Python values: None, str, int, float, bool, an object the factory       *)
(* returned, a list of such objects.  A float keeps its literal.           *)
(***************************************************************************)
PyNone == [k |-> "none", v |-> <<>>]

PyStr(s) == [k |-> "str", v |-> s]

PyInt(n) == [k |-> "int", v |-> n]

PyFloat(s) == [k |-> "float", v |-> s]

PyBool(b) == [k |-> "bool", v |-> b]

PyObj(o) == [k |-> "obj", v |-> o]

PyList(os) == [k |-> "list", v |-> os]

IsNone(x) == x.k = "none"

\* six.text_type(value) of None, a str or a bool
TextType(x) ==
    CASE x.k = "none" -> S_None
      [] x.k = "str"  -> x.v
      [] x.k = "bool" -> IF x.v THEN S_True ELSE S_False

(***************************************************************************)
(* Documents.  An XML text is a tree of elements; etree.parse gives the    *)
(* elements in document order, each with its tag, parent, source line,     *)
(* attributes and text.  Element 0 stands for the document itself.         *)
(***************************************************************************)
El(tag, attrs, text, kids) ==
    [tag |-> tag, attrs |-> attrs, text |-> text, kids |-> kids]

NoAttrs == <<>>

NoKids == <<>>

\* the text of a parsed element: None when there is none, and with
\* XMLParser(remove_blank_text=True) the blank text before a child element
\* is dropped
ParsedText(text, kids) ==
    IF text.k = "str" /\ (text.v = <<>> \/ (Strip(text.v) = <<>> /\ kids # <<>>))
    THEN PyNone
    ELSE text

RECURSIVE ParseElements(_, _, _)
ParseElements(els, parent, acc) ==
    IF els = <<>> THEN acc
    ELSE LET me   == Len(acc) + 1
             node == [tag    |-> els[1].tag,
                      parent |-> parent,
                      line   |-> me,
                      attrs  |-> els[1].attrs,
                      text   |-> ParsedText(els[1].text, els[1].kids)]
         IN  ParseElements(Tail(els), parent,
                           ParseElements(els[1].kids, me, Append(acc, node)))

\* etree.parse(xml_file, parser)
Parse(xml) == ParseElements(<<xml>>, 0, <<>>)

(***************************************************************************)
(* The XPath subset the mappings use: [/]step/step..., a step being a      *)
(* child tag, @attribute or .., and boolean(path).                         *)
(***************************************************************************)
RECURSIVE SplitSlash(_, _)
SplitSlash(s, cur) ==
    IF s = <<>> THEN <<cur>>
    ELSE IF s[1] = "/" THEN <<cur>> \o SplitSlash(Tail(s), <<>>)
    ELSE SplitSlash(Tail(s), Append(cur, s[1]))

IsBooleanCall(x) ==
    /\ Len(x) > Len(S_boolean) + 1
    /\ SubSeq(x, 1, Len(S_boolean)) = S_boolean
    /\ x[Len(S_boolean) + 1] = "("
    /\ x[Len(x)] = ")"

PathOf(x) ==
    LET abs == Len(x) > 0 /\ x[1] = "/"
    IN  [abs |-> abs, steps |-> SplitSlash(IF abs THEN Tail(x) ELSE x, <<>>)]

\* etree.XPath(xpath, smart_strings=False)
_compile_xpath(xpath) ==
    IF IsBooleanCall(xpath)
    THEN [fn |-> "boolean",
          path |-> PathOf(SubSeq(xpath, Len(S_boolean) + 2, Len(xpath) - 1))]
    ELSE [fn |-> "path", path |-> PathOf(xpath)]

SortedNodes(S, doc) == SelectSeq([i \in 1..Len(doc) |-> i], LAMBDA i : i \in S)

ElItem(n) == [el |-> n, s |-> <<>>]

StrItem(s) == [el |-> 0, s |-> s]

\* the value of the remaining steps from the node set cur: a list of
\* elements, or of attribute values, in document order
RECURSIVE EvalSteps(_, _, _)
EvalSteps(steps, cur, doc) ==
    IF steps = <<>>
    THEN LET ns == SortedNodes(cur, doc)
         IN  [i \in DOMAIN ns |-> ElItem(ns[i])]
    ELSE LET st == steps[1]
         IN  IF Len(st) > 0 /\ st[1] = "@"
             THEN LET name == Tail(st)
                      ns   == SortedNodes(
                                  {n \in cur \ {0} : name \in DOMAIN doc[n].attrs},
                                  doc)
                  IN  [i \in DOMAIN ns |-> StrItem(doc[ns[i]].attrs[name])]
             ELSE IF st = <<".", ".">>
             THEN EvalSteps(Tail(steps), {doc[n].parent : n \in cur \ {0}}, doc)
             ELSE EvalSteps(Tail(steps),
                            {n \in 1..Len(doc) :
                                doc[n].parent \in cur /\ doc[n].tag = st},
                            doc)

\* xpath(element): element 0 is the ElementTree, whose relative paths start
\* at the root element
XPathResult(xp, element, doc) ==
    LET start == IF xp.path.abs THEN {0}
                 ELSE IF element = 0 THEN {1} ELSE {element}
        items == EvalSteps(xp.path.steps, start, doc)
    IN  IF xp.fn = "boolean"
        THEN [list |-> FALSE, items |-> <<>>, scalar |-> PyBool(items # <<>>)]
        ELSE [list |-> TRUE, items |-> items, scalar |-> PyNone]

(***************************************************************************)
(* Raw specifications: what the caller passes to XMLMapper(mappings,       *)
(* filters).  A value is a str, a dict (keys to values), a list or a       *)
(* number.                                                                 *)
(***************************************************************************)
RStr(s) == [t |-> "str", v |-> s]

RDict(m) == [t |-> "dict", v |-> m]

RList(xs) == [t |-> "list", v |-> xs]

RNum(n) == [t |-> "num", v |-> n]

\* the outcome of a compilation step that raised nothing
NoSyntaxError == [kind |-> "none", type |-> <<>>, attr |-> <<>>]

\* XMLMapperSyntaxError (or, for kind "TypeError", Python's own exception)
SyntaxError(kind, type, attr) == [kind |-> kind, type |-> type, attr |-> attr]

NoQuery == [cls |-> "none"]

\* re.match of _RX_QUERY, (?:(?P<type>\w+)\s*:\s*)?(?P<xpath>.*): the groups
\* type (None when the prefix is absent) and xpath
RxQueryMatch(query) ==
    LET n      == Len(query)
        \* the longest prefix of word characters
        w      == Max({i \in 0..n : \A j \in 1..i : query[j] \in WordChars})
        \* skipping \s* from position i on
        skip(i) == Min({j \in i..(n + 1) :
                           j = n + 1 \/ query[j] \notin SpaceChars})
        colon  == skip(w + 1)
        typed  == w > 0 /\ colon <= n /\ query[colon] = ":"
        from   == IF typed THEN skip(colon + 1) ELSE 1
        \* .* stops at a line break
        upto   == Min({j \in from..(n + 1) : j = n + 1 \/ query[j] = "\n"})
    IN  [type  |-> IF typed THEN PyStr(SubSeq(query, 1, w)) ELSE PyNone,
         xpath |-> SubSeq(query, from, upto - 1)]

\* XMLMapper._VALUE_TYPES
_VALUE_TYPES == {T_string, T_int, T_float, T_bool}

\* _XPathQuery(mapping_type, attr, value_type, xpath)
_XPathQuery(mapping_type, attr, value_type, xpath) ==
    [cls |-> "xpath", mapping_type |-> mapping_type, attr |-> attr,
     value_type |-> value_type, xpath |-> xpath]

\* _MappingQuery(mapping_type, attr, match, has_id, returns_list, compiled)
_MappingQuery(mapping_type, attr, match, has_id, returns_list, compiled) ==
    [cls |-> "mapping", mapping_type |-> mapping_type, attr |-> attr,
     match |-> match, has_id |-> has_id, returns_list |-> returns_list,
     compiled |-> compiled]

\* a slip in _compile_query: has_id of the referenced type is not looked at
_compile_query_any_type(types, filters, mapping_type, attr, query) ==
    LET q_match == RxQueryMatch(query)
        q_type  == IF IsNone(q_match.type) THEN T_string ELSE q_match.type.v
        fail(kind) == [err |-> SyntaxError(kind, mapping_type, attr),
                       types |-> types, query |-> NoQuery]
    IN  IF /\ q_type \notin _VALUE_TYPES
           /\ q_type \notin filters
           /\ q_type \notin DOMAIN types
        THEN fail("unknown_value_type")
        ELSE IF attr = K_id /\ q_type # T_string
        THEN fail("id_not_string")
        ELSE [err |-> NoSyntaxError,
              types |-> types,
              query |-> _XPathQuery(mapping_type, attr, q_type,
                                    _compile_xpath(q_match.xpath))]

\* XMLMapper._compile_query with self._types and self._filters:
\* [err, types, query]
_compile_query(types, filters, mapping_type, attr, query) ==
    LET q_match == RxQueryMatch(query)
        q_type  == IF IsNone(q_match.type) THEN T_string ELSE q_match.type.v
        fail(kind) == [err |-> SyntaxError(kind, mapping_type, attr),
                       types |-> types, query |-> NoQuery]
    IN  IF /\ q_type \notin _VALUE_TYPES
           /\ q_type \notin filters
           /\ q_type \notin DOMAIN types
        THEN fail("unknown_value_type")
        ELSE IF /\ q_type \notin _VALUE_TYPES
                /\ q_type \notin filters
                /\ ~types[q_type].has_id
        THEN fail("invalid_value_type")
        ELSE IF attr = K_id /\ q_type # T_string
        THEN fail("id_not_string")
        ELSE [err |-> NoSyntaxError,
              types |-> types,
              query |-> _XPathQuery(mapping_type, attr, q_type,
                                    _compile_xpath(q_match.xpath))]

\* whether the str s contains the str sub ('sub' in s)
Contains(s, sub) ==
    \E i \in 1..(Len(s) - Len(sub) + 1) : SubSeq(s, i, i + Len(sub) - 1) = sub

\* self._types[mtype] = query_obj
SetType(types, mtype, query_obj) ==
    [x \in DOMAIN types \cup {mtype} |->
        IF x = mtype THEN query_obj ELSE types[x]]

\* the outcome of a compilation that raised the error kind
Failed(kind, type, types) ==
    [err |-> SyntaxError(kind, type, <<>>), types |-> types, query |-> NoQuery]

RECURSIVE _compile_mapping(_, _, _, _, _)
RECURSIVE CompileAttributes(_, _, _, _, _, _)
RECURSIVE AttributeCompiled(_, _, _, _, _, _)

\* the loop of _compile_mapping over sorted(mapping.keys()), from the key
\* keys[1] on: [err, types, compiled]
CompileAttributes(types, filters, mtype, mapping, keys, compiled) ==
    IF keys = <<>>
    THEN [err |-> NoSyntaxError, types |-> types, compiled |-> compiled]
    ELSE IF keys[1] = K_type \/ keys[1] = K_match
    THEN CompileAttributes(types, filters, mtype, mapping, Tail(keys), compiled)
    ELSE AttributeCompiled(
             CASE mapping[keys[1]].t = "dict" ->
                     _compile_mapping(types, filters, PyStr(keys[1]),
                                      mapping[keys[1]], FALSE)
               [] mapping[keys[1]].t = "list" /\ Len(mapping[keys[1]].v) = 1 ->
                     _compile_mapping(types, filters, PyStr(keys[1]),
                                      mapping[keys[1]].v[1], TRUE)
               [] mapping[keys[1]].t = "str" ->
                     _compile_query(types, filters, mtype, keys[1],
                                    mapping[keys[1]].v)
               [] OTHER ->
                     Failed("invalid_query_type", mtype, types),
             filters, mtype, mapping, keys, compiled)

\* the rest of the loop once the query r.query of the key keys[1] is
\* compiled (compiled.append(query)), or the error that ends it
AttributeCompiled(r, filters, mtype, mapping, keys, compiled) ==
    IF r.err.kind # "none"
    THEN [err |-> r.err, types |-> r.types, compiled |-> compiled]
    ELSE CompileAttributes(r.types, filters, mtype, mapping, Tail(keys),
                           Append(compiled, r.query))

\* the end of _compile_mapping: the mapping object enters the types index
MappingCompiled(c, mtype, attr, match, has_id, returns_list) ==
    IF c.err.kind # "none"
    THEN [err |-> c.err, types |-> c.types, query |-> NoQuery]
    ELSE [err |-> NoSyntaxError,
          types |-> SetType(c.types, mtype,
                            _MappingQuery(mtype, attr, match, has_id,
                                          returns_list, c.compiled)),
          query |-> _MappingQuery(mtype, attr, match, has_id, returns_list,
                                  c.compiled)]

\* XMLMapper._compile_mapping(attr, mapping, returns_list) with self._types
\* and self._filters: [err, types, query], types being self._types afterwards
_compile_mapping(types, filters, attr, mapping, returns_list) ==
    \* '_type' not in mapping, for a mapping that is no dict
    IF mapping.t = "num" THEN Failed("TypeError", <<>>, types)
    ELSE IF mapping.t = "list" THEN
        IF \E i \in DOMAIN mapping.v :
               mapping.v[i].t = "str" /\ mapping.v[i].v = K_type
        THEN Failed("TypeError", <<>>, types)
        ELSE Failed("missing_type", <<>>, types)
    ELSE IF mapping.t = "str" THEN
        IF Contains(mapping.v, K_type)
        THEN Failed("TypeError", <<>>, types)
        ELSE Failed("missing_type", <<>>, types)
    ELSE IF K_type \notin DOMAIN mapping.v
    THEN Failed("missing_type", <<>>, types)
    ELSE IF mapping.v[K_type].t # "str"
    THEN Failed("type_not_string", <<>>, types)
    ELSE IF K_match \notin DOMAIN mapping.v
    THEN Failed("missing_match", mapping.v[K_type].v, types)
    ELSE IF mapping.v[K_type].v \in DOMAIN types
    THEN Failed("duplicate_type", mapping.v[K_type].v, types)
    ELSE IF mapping.v[K_match].t # "str"
    THEN Failed("match_not_string", mapping.v[K_type].v, types)
    ELSE MappingCompiled(
             CompileAttributes(types, filters, mapping.v[K_type].v, mapping.v,
                               Sorted(DOMAIN mapping.v), <<>>),
             mapping.v[K_type].v, attr, _compile_xpath(mapping.v[K_match].v),
             K_id \in DOMAIN mapping.v, returns_list)

\* the list comprehension of __init__ over the mappings, from mappings[1]
\* on: [err, types, mappings]
RECURSIVE CompileAll(_, _, _, _)
RECURSIVE TopCompiled(_, _, _, _)
CompileAll(types, filters, mappings, done) ==
    IF mappings = <<>>
    THEN [err |-> NoSyntaxError, types |-> types, mappings |-> done]
    ELSE TopCompiled(_compile_mapping(types, filters, PyNone, mappings[1], TRUE),
                     filters, mappings, done)

TopCompiled(r, filters, mappings, done) ==
    IF r.err.kind # "none"
    THEN [err |-> r.err, types |-> r.types, mappings |-> <<>>]
    ELSE CompileAll(r.types, filters, Tail(mappings), Append(done, r.query))

(***************************************************************************)
(* The specification sets the mapper is constructed from.                  *)
(***************************************************************************)
N_a == <<"a">>
N_b == <<"b">>
N_c == <<"c">>
N_r == <<"r">>
N_n == <<"n">>
N_v == <<"v">>
N_id == <<"i", "d">>
N_aid == <<"a", "i", "d">>
N_title == <<"t", "i", "t", "l", "e">>
N_value == <<"v", "a", "l", "u", "e">>
F_b_list == <<"b", "_", "l", "i", "s", "t">>
F_ref == <<"r", "e", "f">>
F_x == <<"x">>
F_y == <<"y">>
T_foo == <<"f", "o", "o">>
T_min_age == <<"m", "i", "n", "_", "a", "g", "e">>
P_ra == <<"/", "r", "/", "a">>
P_rb == <<"/", "r", "/", "b">>
P_rc == <<"/", "r", "/", "c">>
P_at_id == <<"@", "i", "d">>
P_at_aid == <<"@", "a", "i", "d">>
P_at_v == <<"@", "v">>
P_id_value == <<"i", "d", "/", "@", "v", "a", "l", "u", "e">>
P_boolean_n == <<"b", "o", "o", "l", "e", "a", "n", "(", "n", ")">>

\* the query string "type: xpath"
Typed(type, xpath) == type \o <<":", " ">> \o xpath

\* the dict {'_type': type, '_match': match, **fields}
Mapping(type, match, fields) ==
    RDict((K_type :> RStr(type)) @@ (K_match :> RStr(match)) @@ fields)

NoFields == <<>>

\* the example of the class docstring, as
\* TestExampleFromClassDocstring gives it
M_docstring ==
    <<Mapping(N_a, P_ra,
              (K_id :> RStr(P_at_id)) @@ (N_id :> RStr(P_at_id))
              @@ (N_title :> RStr(N_title))
              @@ (F_b_list :> RList(<<Mapping(N_b, N_b,
                      N_id :> RStr(Typed(T_int, P_id_value)))>>))),
      Mapping(N_c, P_rc, N_a :> RStr(Typed(N_a, P_at_aid)))>>

\* test_mapper_loading_ref_errors
M_ref ==
    <<Mapping(N_a, P_ra, K_id :> RStr(P_at_id)),
      Mapping(N_b, P_rb, F_ref :> RStr(Typed(N_a, P_at_aid)))>>

\* test_nested_mappings: a list and a singleton nested mapping
M_nested ==
    <<Mapping(N_a, P_ra,
              (N_id :> RStr(P_at_id))
              @@ (N_b :> RList(<<Mapping(N_b, N_b, N_id :> RStr(P_at_id))>>))
              @@ (N_c :> RDict(Mapping(N_c, N_c, N_id :> RStr(P_at_id)).v)))>>

\* identifiers of a nested type, and the same identifiers under another type
M_nested_id ==
    <<Mapping(N_a, P_ra,
              N_b :> RList(<<Mapping(N_b, N_b, K_id :> RStr(P_at_id))>>)),
      Mapping(N_c, P_rc, K_id :> RStr(P_at_id))>>

\* test_mapper_loading_nested_errors, the nested type with identifiers
M_single ==
    <<Mapping(N_a, P_ra,
              N_b :> RDict(Mapping(N_b, N_b, K_id :> RStr(P_at_id)).v))>>

\* test_mapper_loading_int_errors
M_id_int ==
    <<Mapping(N_a, P_ra,
              (K_id :> RStr(P_at_id)) @@ (N_b :> RStr(Typed(T_int, N_b))))>>

\* computed scalars (test_value_type_bool)
M_scalar ==
    <<Mapping(N_b, P_rb,
              (F_x :> RStr(Typed(T_bool, P_boolean_n)))
              @@ (F_y :> RStr(P_boolean_n)))>>

\* TestValueTypes, TestCustomFilters: one value kind on an element path and
\* on an attribute path
M_kind(kind) ==
    <<Mapping(N_a, P_ra, K_id :> RStr(P_at_id)),
      Mapping(N_b, P_rb,
              (F_x :> RStr(Typed(kind, N_n))) @@ (F_y :> RStr(Typed(kind, P_at_v))))>>

\* test_mapper_syntax_attribute_errors: two top-level mappings of one type
M_dup_top == <<Mapping(N_a, P_ra, NoFields), Mapping(N_a, P_rb, NoFields)>>

\* a type again, nested inside a mapping of another type
M_dup_nested ==
    <<Mapping(N_a, P_ra, NoFields),
      Mapping(N_b, P_rb, F_x :> RDict(Mapping(N_a, N_n, NoFields).v))>>

\* a type again, nested inside the mapping of that type
M_dup_self ==
    <<Mapping(N_a, P_ra, F_x :> RDict(Mapping(N_a, N_b, NoFields).v))>>

\* a type again, two levels inside the mapping of that type
M_dup_deep ==
    <<Mapping(N_a, P_ra,
              F_x :> RList(<<Mapping(N_b, N_b,
                      F_y :> RDict(Mapping(N_a, N_n, NoFields).v))>>))>>

\* test_mapper_syntax_value_errors: one mapping with the field b
M_field(value) == <<Mapping(N_a, P_ra, N_b :> value)>>

\* the values of M_field: 123, [], two mappings in a list, ['b'], [5]
FieldValues ==
    <<RNum(123), RList(<<>>),
      RList(<<Mapping(N_b, N_b, NoFields), Mapping(N_c, N_c, NoFields)>>),
      RList(<<RStr(N_b)>>), RList(<<RNum(5)>>)>>

\* test_mapper_syntax_value_errors: a mapping with the _id value, after a
\* mapping that can be referenced
M_id(value) ==
    <<Mapping(N_c, P_rc, K_id :> RStr(P_at_id)),
      Mapping(N_a, P_ra, K_id :> value)>>

\* the values of M_id: with a kind prefix, and as a nested mapping
IdValues ==
    <<RStr(Typed(T_string, P_at_id)), RStr(Typed(T_int, P_at_id)),
      RStr(Typed(T_float, P_at_id)), RStr(Typed(T_bool, P_at_id)),
      RStr(Typed(T_foo, P_at_id)), RStr(Typed(N_c, P_at_id)),
      RDict(Mapping(N_b, N_b, NoFields).v),
      RList(<<Mapping(N_b, N_b, NoFields)>>)>>

\* test_mapper_syntax_value_errors: a reference to a type of a later mapping
M_ref_later ==
    <<Mapping(N_b, P_rb, F_ref :> RStr(Typed(N_a, P_at_aid))),
      Mapping(N_a, P_ra, K_id :> RStr(P_at_id))>>

\* a reference to a type without _id
M_ref_no_id ==
    <<Mapping(N_a, P_ra, NoFields),
      Mapping(N_b, P_rb, F_ref :> RStr(Typed(N_a, P_at_aid)))>>

\* a reference to the type of the mapping itself
M_ref_self ==
    <<Mapping(N_a, P_ra,
              (K_id :> RStr(P_at_id)) @@ (F_ref :> RStr(Typed(N_a, P_at_aid))))>>

\* a reference to the type of the enclosing mapping
M_ref_enclosing ==
    <<Mapping(N_a, P_ra,
              (K_id :> RStr(P_at_id))
              @@ (F_x :> RDict(Mapping(N_b, N_b,
                         F_ref :> RStr(Typed(N_a, P_at_aid))).v)))>>

\* a reference to a type nested under the field of the name attr, from the
\* field n, which a nested mapping under the field y follows
M_ref_nested(attr) ==
    <<Mapping(N_a, P_ra,
              (attr :> RList(<<Mapping(N_b, N_b, K_id :> RStr(P_at_id))>>))
              @@ (N_n :> RStr(Typed(N_b, P_at_id)))
              @@ (F_y :> RList(<<Mapping(N_c, N_c, K_id :> RStr(P_at_id))>>)))>>

\* a reference to the type of the mapping itself, which a mapping nested
\* under the earlier field b declares again
M_ref_self_nested ==
    <<Mapping(N_a, P_ra,
              (K_id :> RStr(P_at_id))
              @@ (N_b :> RDict(Mapping(N_a, N_b, K_id :> RStr(P_at_id)).v))
              @@ (F_ref :> RStr(Typed(N_a, P_at_aid))))>>

\* the filters of TestCustomFilters ('foo') and of the loadxml command
\* ('min_age')
AllFilters == {T_foo, T_min_age}

\* the value kinds of M_kind: the built-in ones, the filters, a reference
Kinds == <<T_string, T_int, T_float, T_bool, T_foo, T_min_age, N_a>>

(***************************************************************************)
(* The documents the model loads: a root r, and under it up to MaxTop of   *)
(* the elements that go with the specification set.                        *)
(***************************************************************************)
V_1 == <<"1">>
V_2 == <<"2">>
V_42 == <<"4", "2">>
V_a1 == <<"a", "1">>
V_sp1 == <<" ", "1", " ">>
V_7sp == <<" ", "7", "\n">>
V_12_3 == <<"1", "2", ".", "3">>
V_TRUE == <<"T", "R", "U", "E">>
V_aoeu == <<"a", "o", "e", "u">>
V_16plus == <<"1", "6", "+">>

Leaf(tag, attrs, text) == El(tag, attrs, text, NoKids)

\* <a id="1"/>, <a id="2"/>, <a/>
E_a1 == Leaf(N_a, N_id :> V_1, PyNone)
E_a2 == Leaf(N_a, N_id :> V_2, PyNone)
E_a0 == Leaf(N_a, NoAttrs, PyNone)

\* <a id="1"> <title>a1</title> <b><id value="42"/></b> </a>
E_a_full ==
    El(N_a, N_id :> V_1, PyStr(<<"\n", " ">>),
       <<Leaf(N_title, NoAttrs, PyStr(V_a1)),
         El(N_b, NoAttrs, PyNone, <<Leaf(N_id, N_value :> V_42, PyNone)>>)>>)

\* <a id="2"><b id="1"/></a>
E_a_b1 == El(N_a, N_id :> V_2, PyNone, <<Leaf(N_b, N_id :> V_1, PyNone)>>)

\* <a id="1"><b id="1"/><b id="1"/></a>
E_a_b1b1 ==
    El(N_a, N_id :> V_1, PyNone,
       <<Leaf(N_b, N_id :> V_1, PyNone), Leaf(N_b, N_id :> V_1, PyNone)>>)

\* <a><b id="1">aoeu</b><b id="2"/></a>
E_a_b1b2 ==
    El(N_a, NoAttrs, PyNone,
       <<Leaf(N_b, N_id :> V_1, PyStr(V_aoeu)), Leaf(N_b, N_id :> V_2, PyNone)>>)

\* <b aid="1"/>, <b aid="2"/>
E_b1 == Leaf(N_b, N_aid :> V_1, PyNone)
E_b2 == Leaf(N_b, N_aid :> V_2, PyNone)

\* <b v="..."> with <n> children
E_bv(v, ns) ==
    El(N_b, N_v :> v, PyNone, [i \in DOMAIN ns |-> Leaf(N_n, NoAttrs, ns[i])])

\* <b v=" 1 "><n>1</n></b>
E_bv_1 == E_bv(V_sp1, <<PyStr(V_1)>>)
\* <b v="12.3"><n> 7\n</n></b>
E_bv_f == E_bv(V_12_3, <<PyStr(V_7sp)>>)
\* <b v="TRUE"><n>false</n></b>
E_bv_t == E_bv(V_TRUE, <<PyStr(S_false)>>)
\* <b v="aoeu"><n/></b>
E_bv_x == E_bv(V_aoeu, <<PyNone>>)
\* <b v="16+"><n>1</n><n>2</n></b>
E_bv_m == E_bv(V_16plus, <<PyStr(V_1), PyStr(V_2)>>)

\* <a id="1"><c id="1"/></a>
E_a_c1 == El(N_a, N_id :> V_1, PyNone, <<Leaf(N_c, N_id :> V_1, PyNone)>>)

\* <a><b>aoeu</b></a>
E_a0_bx == El(N_a, NoAttrs, PyNone, <<Leaf(N_b, NoAttrs, PyStr(V_aoeu))>>)

\* <a id="1"><b>42</b></a>
E_a_b42 == El(N_a, N_id :> V_1, PyNone, <<Leaf(N_b, NoAttrs, PyStr(V_42))>>)

\* <a id="1"><c id="1"/><b id="1"/></a>
E_a_c1b1 ==
    El(N_a, N_id :> V_1, PyNone,
       <<Leaf(N_c, N_id :> V_1, PyNone), Leaf(N_b, N_id :> V_1, PyNone)>>)

\* <c id="1" aid="1"/>
E_c1 == Leaf(N_c, (N_id :> V_1) @@ (N_aid :> V_1), PyNone)

\* <r> tops </r>
Xml(tops) == El(N_r, NoAttrs, PyNone, tops)

\* the documents with up to MaxTop of the elements under the root
Documents(elements) ==
    UNION {{Xml(tops) : tops \in [1..n -> elements]} : n \in 0..MaxTop}

\* a mapper's arguments, and the elements of the documents it is given
Fixture(mappings, filters, elements) ==
    [mappings |-> mappings, filters |-> filters, elements |-> elements]

\* the arguments of XMLMapper(mappings, filters) the model constructs, each
\* with the elements its mappings tell apart
SpecSets ==
    <<Fixture(M_docstring, {}, {E_a_full, E_a1, E_a_b1, E_a0, E_c1}),
      Fixture(M_ref, {}, {E_a1, E_a2, E_b1, E_b2, E_bv_x}),
      Fixture(M_nested, {}, {E_a1, E_a_b1, E_a_b1b2, E_a_c1, E_c1}),
      Fixture(M_nested_id, {}, {E_a_b1, E_a_b1b1, E_a_b1b2, E_a0, E_c1}),
      Fixture(M_single, {}, {E_a1, E_a_b1, E_a_b1b1, E_a_b1b2, E_b1}),
      Fixture(M_id_int, {}, {E_a1, E_a_b1, E_a_b1b1, E_a0_bx, E_a_b42}),
      Fixture(M_scalar, {}, {E_bv_1, E_bv_x, E_bv_m, E_b1, E_a1}),
      Fixture(M_dup_top, {}, {E_a1}),
      Fixture(M_dup_nested, {}, {E_a1}),
      Fixture(M_dup_self, {}, {E_a1, E_a_b1, E_a_b1b1, E_b1}),
      Fixture(M_dup_deep, {}, {E_a1, E_a_b1, E_a_b1b2, E_b1}),
      Fixture(M_ref_later, {}, {E_a1, E_b1}),
      Fixture(M_ref_no_id, {}, {E_a1, E_b1}),
      Fixture(M_ref_self, {}, {E_a1}),
      Fixture(M_ref_enclosing, {}, {E_a1, E_a_b1}),
      Fixture(M_ref_nested(N_b), {}, {E_a1, E_a_b1, E_a_c1b1}),
      Fixture(M_ref_nested(F_x), {}, {E_a1, E_a_b1}),
      Fixture(M_ref_self_nested, {}, {E_a1, E_a_b1})>>
    \o [i \in DOMAIN FieldValues |->
           Fixture(M_field(FieldValues[i]), {}, {E_a1, E_a_b1})]
    \o [i \in DOMAIN IdValues |->
           Fixture(M_id(IdValues[i]), AllFilters, {E_a1, E_a_b1, E_c1})]
    \o [i \in DOMAIN Kinds |->
           Fixture(M_kind(Kinds[i]), AllFilters,
                   {E_a1, E_bv_1, E_bv_f, E_bv_t, E_bv_x, E_bv_m, E_b1})]

(***************************************************************************)
(* Loading: the value of one query, the identity registry, the filters.    *)
(***************************************************************************)
NoError == [kind |-> "none", tag |-> <<>>, line |-> 0, info |-> <<>>]

\* XMLMapperLoadingError(element, message): element_tag and source_line
\* are those of the element, info the values formatted into the message
XMLMapperLoadingError(doc, element, kind, info) ==
    [kind |-> kind, tag |-> doc[element].tag, line |-> doc[element].line,
     info |-> info]

\* an exception of Python's own that a filter raised
ForeignError(kind) == [kind |-> kind, tag |-> <<>>, line |-> 0, info |-> <<>>]

\* a slip in _get_string: return '' for the empty list
_get_string_empty_text(doc, element, value) ==
    IF value.list /\ Len(value.items) = 0
    THEN [err |-> NoError, str |-> PyStr(<<>>)]
    ELSE IF value.list /\ Len(value.items) > 1
    THEN [err |-> XMLMapperLoadingError(doc, element, "multiple_elements", <<>>),
          str |-> PyNone]
    ELSE LET item == IF value.list
                     THEN IF value.items[1].el # 0
                          THEN doc[value.items[1].el].text
                          ELSE PyStr(value.items[1].s)
                     ELSE value.scalar
         IN  [err |-> NoError, str |-> PyStr(Strip(TextType(item)))]

\* a slip in _get_string: value[0] taken from a list of any length
_get_string_first_of_many(doc, element, value) ==
    IF value.list /\ Len(value.items) = 0
    THEN [err |-> NoError, str |-> PyNone]
    ELSE LET item == IF value.list
                     THEN IF value.items[1].el # 0
                          THEN doc[value.items[1].el].text
                          ELSE PyStr(value.items[1].s)
                     ELSE value.scalar
         IN  [err |-> NoError, str |-> PyStr(Strip(TextType(item)))]

\* _XPathQuery._get_string(element, xpath_query, value): [err, str]
_get_string(doc, element, value) ==
    IF value.list /\ Len(value.items) = 0
    THEN [err |-> NoError, str |-> PyNone]
    ELSE IF value.list /\ Len(value.items) > 1
    THEN [err |-> XMLMapperLoadingError(doc, element, "multiple_elements", <<>>),
          str |-> PyNone]
    ELSE LET item == IF value.list
                     THEN IF value.items[1].el # 0
                          \* hasattr(value, 'text'): an element
                          THEN doc[value.items[1].el].text
                          ELSE PyStr(value.items[1].s)
                     ELSE value.scalar
         IN  [err |-> NoError, str |-> PyStr(Strip(TextType(item)))]

\* a slip in get_object: self._objects.get(obj_key), which raises nothing
get_object_dict_get(_objects, doc, element, obj_type, obj_id) ==
    IF <<obj_type, obj_id>> \notin DOMAIN _objects
    THEN [err |-> NoError, obj |-> PyNone]
    ELSE [err |-> NoError, obj |-> PyObj(_objects[<<obj_type, obj_id>>])]

\* _State.get_object(element, obj_type, obj_id): [err, obj]
get_object(_objects, doc, element, obj_type, obj_id) ==
    LET obj_key == <<obj_type, obj_id>>
    IN  IF obj_key \notin DOMAIN _objects
        THEN [err |-> XMLMapperLoadingError(doc, element, "undefined_reference",
                                            <<obj_type, TextType(obj_id)>>),
              obj |-> PyNone]
        ELSE [err |-> NoError, obj |-> PyObj(_objects[obj_key])]

\* a slip in add_object: the check of obj_id is None left out
add_object_null_unchecked(_objects, doc, element, obj_type, obj_id, obj) ==
    IF <<obj_type, obj_id>> \in DOMAIN _objects
    THEN [err |-> XMLMapperLoadingError(doc, element, "duplicate_id",
                                        <<TextType(obj_id), obj_type>>),
          _objects |-> _objects]
    ELSE [err |-> NoError,
          _objects |-> [x \in DOMAIN _objects \cup {<<obj_type, obj_id>>} |->
                           IF x = <<obj_type, obj_id>> THEN obj
                           ELSE _objects[x]]]

\* a slip in add_object: obj_key = obj_id, the type left out of the key
add_object_key_without_type(_objects, doc, element, obj_type, obj_id, obj) ==
    IF IsNone(obj_id)
    THEN [err |-> XMLMapperLoadingError(doc, element, "null_id", <<obj_type>>),
          _objects |-> _objects]
    ELSE IF \E key \in DOMAIN _objects : key[2] = obj_id
    THEN [err |-> XMLMapperLoadingError(doc, element, "duplicate_id",
                                        <<obj_id.v, obj_type>>),
          _objects |-> _objects]
    ELSE [err |-> NoError,
          _objects |-> [x \in DOMAIN _objects \cup {<<obj_type, obj_id>>} |->
                           IF x = <<obj_type, obj_id>> THEN obj
                           ELSE _objects[x]]]

\* a slip in add_object: the checks without self._objects[obj_key] = obj
add_object_not_stored(_objects, doc, element, obj_type, obj_id, obj) ==
    IF IsNone(obj_id)
    THEN [err |-> XMLMapperLoadingError(doc, element, "null_id", <<obj_type>>),
          _objects |-> _objects]
    ELSE IF <<obj_type, obj_id>> \in DOMAIN _objects
    THEN [err |-> XMLMapperLoadingError(doc, element, "duplicate_id",
                                        <<obj_id.v, obj_type>>),
          _objects |-> _objects]
    ELSE [err |-> NoError, _objects |-> _objects]

\* a slip in add_object: the check of the key left out, so that a second
\* object with the identifier takes the place of the first
add_object_overwrite(_objects, doc, element, obj_type, obj_id, obj) ==
    IF IsNone(obj_id)
    THEN [err |-> XMLMapperLoadingError(doc, element, "null_id", <<obj_type>>),
          _objects |-> _objects]
    ELSE IF obj_id.k = "list"
    THEN [err |-> ForeignError("TypeError"), _objects |-> _objects]
    ELSE [err |-> NoError,
          _objects |-> [x \in DOMAIN _objects \cup {<<obj_type, obj_id>>} |->
                           IF x = <<obj_type, obj_id>> THEN obj
                           ELSE _objects[x]]]

\* _State.add_object(element, obj_type, obj_id, obj): [err, _objects]
add_object(_objects, doc, element, obj_type, obj_id, obj) ==
    LET obj_key == <<obj_type, obj_id>>
    IN  IF IsNone(obj_id)
        THEN [err |-> XMLMapperLoadingError(doc, element, "null_id", <<obj_type>>),
              _objects |-> _objects]
        \* a list in the key cannot be hashed
        ELSE IF obj_id.k = "list"
        THEN [err |-> ForeignError("TypeError"), _objects |-> _objects]
        ELSE IF obj_key \in DOMAIN _objects
        THEN [err |-> XMLMapperLoadingError(doc, element, "duplicate_id",
                                            <<obj_id.v, obj_type>>),
              _objects |-> _objects]
        ELSE [err |-> NoError,
              _objects |-> [x \in DOMAIN _objects \cup {obj_key} |->
                               IF x = obj_key THEN obj ELSE _objects[x]]]

\* the filter 'foo' of TestCustomFilters: '+{}+'.format(val)
foo_filter(val) ==
    [err |-> NoError, value |-> PyStr(<<"+">> \o TextType(val) \o <<"+">>)]

\* the filter min_age_filter of the loadxml command
min_age_filter(value) ==
    IF IsNone(value) THEN [err |-> NoError, value |-> PyInt(0)]
    ELSE LET front == SubSeq(value.v, 1, Len(value.v) - 1)
         IN  IF IsIntLiteral(front)
             THEN [err |-> NoError, value |-> PyInt(IntValue(front))]
             ELSE [err |-> ForeignError("ValueError"), value |-> PyNone]

\* mapper._filters[name](str_value)
CallFilter(name, str_value) ==
    IF name = T_foo THEN foo_filter(str_value) ELSE min_age_filter(str_value)

\* mapper._VALUE_TYPES[value_type](str_value), for a str: [err, value],
\* err being "ValueError" when the conversion raises it
type_conv(value_type, str_value) ==
    CASE value_type = T_string ->
            [err |-> "none", value |-> PyStr(str_value)]
      [] value_type = T_int ->
            IF IsIntLiteral(str_value)
            THEN [err |-> "none", value |-> PyInt(IntValue(str_value))]
            ELSE [err |-> "ValueError", value |-> PyNone]
      [] value_type = T_float ->
            IF IsFloatLiteral(str_value)
            THEN [err |-> "none", value |-> PyFloat(Lower(Strip(str_value)))]
            ELSE [err |-> "ValueError", value |-> PyNone]
      [] value_type = T_bool ->
            \* lambda v: v is True or v.lower() == 'true'
            [err |-> "none", value |-> PyBool(Lower(str_value) = S_true)]

\* a slip in run: the filter is not called for a null value
XPathQueryRun_null_guarded(query, filters, _objects, doc, element) ==
    LET value == XPathResult(query.xpath, element, doc)
        s     == _get_string(doc, element, value)
        str_value == s.str
        out(err, v, branch) ==
            [err |-> err, value |-> v, str_value |-> str_value,
             branch |-> branch,
             called |-> IF branch = "filter" THEN <<str_value>> ELSE <<>>]
    IN  IF s.err.kind # "none" THEN out(s.err, PyNone, "_get_string")
        ELSE IF query.value_type = T_string THEN out(NoError, str_value, "string")
        ELSE IF IsNone(str_value) /\ query.value_type \in _VALUE_TYPES \cup filters
        THEN out(NoError, PyNone, "null")
        ELSE IF query.value_type \in _VALUE_TYPES THEN
            LET c == type_conv(query.value_type, str_value.v)
            IN  IF c.err = "ValueError"
                THEN out(XMLMapperLoadingError(doc, element, "invalid_literal",
                             <<query.value_type, str_value.v>>),
                         PyNone, "type_conv")
                ELSE out(NoError, c.value, "type_conv")
        ELSE IF query.value_type \in filters THEN
            LET f == CallFilter(query.value_type, str_value)
            IN  out(f.err, f.value, "filter")
        ELSE LET g == get_object(_objects, doc, element, query.value_type,
                                 str_value)
             IN  out(g.err, g.obj, "get_object")

\* _XPathQuery.run(mapper, state, element, object_factory, result):
\* [err, value, str_value, branch, called], branch naming the part of run
\* that decided the outcome
XPathQueryRun(query, filters, _objects, doc, element) ==
    LET value == XPathResult(query.xpath, element, doc)
        s     == _get_string(doc, element, value)
        str_value == s.str
        out(err, v, branch) ==
            [err |-> err, value |-> v, str_value |-> str_value,
             branch |-> branch,
             \* the arguments of the calls of a filter
             called |-> IF branch = "filter" THEN <<str_value>> ELSE <<>>]
    IN  IF s.err.kind # "none" THEN out(s.err, PyNone, "_get_string")
        ELSE IF query.value_type = T_string THEN out(NoError, str_value, "string")
        ELSE IF query.value_type \in _VALUE_TYPES THEN
            IF IsNone(str_value) THEN out(NoError, PyNone, "null")
            ELSE LET c == type_conv(query.value_type, str_value.v)
                 IN  IF c.err = "ValueError"
                     THEN out(XMLMapperLoadingError(doc, element, "invalid_literal",
                                  <<query.value_type, str_value.v>>),
                              PyNone, "type_conv")
                     ELSE out(NoError, c.value, "type_conv")
        ELSE IF query.value_type \in filters THEN
            LET f == CallFilter(query.value_type, str_value)
            IN  out(f.err, f.value, "filter")
        ELSE LET g == get_object(_objects, doc, element, query.value_type,
                                 str_value)
             IN  out(g.err, g.obj, "get_object")

\* a slip in the return statement: objects[0] also when there are several
ReturnValue_first_of_many(doc, element, returns_list, objects) ==
    IF ~returns_list
    THEN IF Len(objects) = 0 THEN [err |-> NoError, value |-> PyNone]
         ELSE [err |-> NoError, value |-> PyObj(objects[1])]
    ELSE [err |-> NoError, value |-> PyList(objects)]

\* the return statement of _load_mapping: [err, value]
ReturnValue(doc, element, returns_list, objects) ==
    IF ~returns_list
    THEN IF Len(objects) = 0 THEN [err |-> NoError, value |-> PyNone]
         ELSE IF Len(objects) = 1
         THEN [err |-> NoError, value |-> PyObj(objects[1])]
         ELSE [err |-> XMLMapperLoadingError(doc, element, "nested_multiple",
                                             <<Len(objects)>>),
               value |-> PyNone]
    ELSE [err |-> NoError, value |-> PyList(objects)]

\* d[k] = v
SetItem(d, k, v) == [x \in DOMAIN d \cup {k} |-> IF x = k THEN v ELSE d[x]]

(***************************************************************************)
(* The state: one mapper, and the threads that call load on it.            *)
(***************************************************************************)
VARIABLES
    phase,          \* "new", then "ready" or, when __init__ raised, "failed"
    args,           \* the arguments XMLMapper was constructed with, and the
                    \* elements of the documents it is given
    _types,         \* self._types: type name -> compiled mapping
    _filters,       \* self._filters: the names of the filters
    _mappings,      \* self._mappings: the compiled top-level mappings
    syntax_error,   \* what __init__ raised
    pc,             \* per thread: "idle", "loading", "returned", "raised"
    loads,          \* per thread: the load calls made so far
    root,           \* per thread: the parsed document of the current call
    next_mapping,   \* per thread: the position of load_file's loop
    stack,          \* per thread: the frames of _load_mapping, innermost last
    result,         \* per thread: the local result of load_file
    state,          \* per thread: state._objects of the current call
    calls,          \* per thread: the create calls the factory has received
    error,          \* per thread: what the current call raised
    returned,       \* per thread: what the current call returned
    last_run        \* per thread: the latest _XPathQuery.run of the current
                    \* call and its outcome

vars == <<phase, args, _types, _filters, _mappings, syntax_error, pc, loads,
          root, next_mapping, stack, result, state, calls, error, returned,
          last_run>>

mapper_vars == <<phase, args, _types, _filters, _mappings, syntax_error>>

Threads == {"t1", "t2"}

NoRun == [ran |-> FALSE]

Init ==
    /\ phase = "new"
    /\ args = Fixture(<<>>, {}, {})
    /\ _types = <<>>
    /\ _filters = {}
    /\ _mappings = <<>>
    /\ syntax_error = NoSyntaxError
    /\ pc = [t \in Threads |-> "idle"]
    /\ loads = [t \in Threads |-> 0]
    /\ root = [t \in Threads |-> <<>>]
    /\ next_mapping = [t \in Threads |-> 1]
    /\ stack = [t \in Threads |-> <<>>]
    /\ result = [t \in Threads |-> <<>>]
    /\ state = [t \in Threads |-> <<>>]
    /\ calls = [t \in Threads |-> <<>>]
    /\ error = [t \in Threads |-> NoError]
    /\ returned = [t \in Threads |-> PyNone]
    /\ last_run = [t \in Threads |-> NoRun]

\* XMLMapper.__init__(mappings, filters)
Construct(a) ==
    /\ phase = "new"
    /\ LET r == CompileAll(<<>>, a.filters, a.mappings, <<>>)
       IN  /\ phase' = IF r.err.kind = "none" THEN "ready" ELSE "failed"
           /\ args' = a
           /\ _types' = r.types
           /\ _filters' = a.filters
           /\ _mappings' = r.mappings
           /\ syntax_error' = r.err
    /\ UNCHANGED <<pc, loads, root, next_mapping, stack, result, state, calls,
                   error, returned, last_run>>

\* result = [] in load_file
NewResult(t) == <<>>

\* a slip in load_file: the registry kept on the mapper, state = self._state
NewState_kept(t) == state[t]

\* a slip in state = self._State(): the registry is taken over from the
\* call another thread is making
NewState_shared(t) == state[CHOOSE u \in Threads : u # t]

\* state = self._State() in load_file
NewState(t) == <<>>

\* load / load_file, up to the loop over self._mappings, on some document;
\* the call is given a factory of its own
LoadFile(t) ==
    /\ phase = "ready"
    /\ pc[t] \in {"idle", "returned", "raised"}
    /\ loads[t] < MaxLoads
    /\ pc' = [pc EXCEPT ![t] = "loading"]
    /\ loads' = [loads EXCEPT ![t] = @ + 1]
    /\ \E xml \in Documents(args.elements) :
          root' = [root EXCEPT ![t] = Parse(xml)]
    /\ next_mapping' = [next_mapping EXCEPT ![t] = 1]
    /\ stack' = [stack EXCEPT ![t] = <<>>]
    /\ result' = [result EXCEPT ![t] = NewResult(t)]
    /\ state' = [state EXCEPT ![t] = NewState(t)]
    /\ calls' = [calls EXCEPT ![t] = <<>>]
    /\ error' = [error EXCEPT ![t] = NoError]
    /\ returned' = [returned EXCEPT ![t] = PyNone]
    /\ last_run' = [last_run EXCEPT ![t] = NoRun]
    /\ UNCHANGED mapper_vars

\* the compiled query a frame or a position refers to
RECURSIVE QueryAt(_, _)
QueryAt(queries, path) ==
    IF Len(path) = 1 THEN queries[path[1]]
    ELSE QueryAt(queries[path[1]].compiled, Tail(path))

\* the entry of _load_mapping(state, element, mapping, ...): objects = []
\* and the matches of mapping.match(element)
Frame(doc, element, path, mapping) ==
    LET found == XPathResult(mapping.match, element, doc).items
    IN  [mapping |-> path,
         element |-> element,
         matches |-> [i \in DOMAIN found |-> found[i].el],
         m |-> 1,
         q |-> 1,
         internal_data |-> <<>>,
         data |-> <<>>,
         objects |-> <<>>]

Top(t) == stack[t][Len(stack[t])]

TopMapping(t) == QueryAt(_mappings, Top(t).mapping)

\* the frame f in place of the innermost frame
WithTop(t, f) == [stack[t] EXCEPT ![Len(stack[t])] = f]

\* a slip in the propagation of an exception: load_file catches it, keeps it
\* aside and goes on with its loop
Raise_caught(t, err) ==
    /\ pc' = pc
    /\ error' = [error EXCEPT ![t] = err]
    /\ stack' = [stack EXCEPT ![t] = <<>>]

\* an exception leaves load_file: the frames are gone
Raise(t, err) ==
    /\ pc' = [pc EXCEPT ![t] = "raised"]
    /\ error' = [error EXCEPT ![t] = err]
    /\ stack' = [stack EXCEPT ![t] = <<>>]

\* a slip in the loop of load_file: reversed(self._mappings)
LoadMapping_reversed(t) ==
    /\ pc[t] = "loading"
    /\ stack[t] = <<>>
    /\ next_mapping[t] <= Len(_mappings)
    /\ stack' = [stack EXCEPT ![t] =
                    <<Frame(root[t], 0, <<Len(_mappings) + 1 - next_mapping[t]>>,
                            _mappings[Len(_mappings) + 1 - next_mapping[t]])>>]
    /\ next_mapping' = [next_mapping EXCEPT ![t] = @ + 1]
    /\ UNCHANGED <<mapper_vars, pc, loads, root, result, state, calls, error,
                   returned, last_run>>

\* load_file: the next self._load_mapping(state, root, mapping, ...)
LoadMapping(t) ==
    /\ pc[t] = "loading"
    /\ stack[t] = <<>>
    /\ next_mapping[t] <= Len(_mappings)
    /\ stack' = [stack EXCEPT ![t] =
                    <<Frame(root[t], 0, <<next_mapping[t]>>,
                            _mappings[next_mapping[t]])>>]
    /\ next_mapping' = [next_mapping EXCEPT ![t] = @ + 1]
    /\ UNCHANGED <<mapper_vars, pc, loads, root, result, state, calls, error,
                   returned, last_run>>

\* load_file: return result
LoadReturn(t) ==
    /\ pc[t] = "loading"
    /\ stack[t] = <<>>
    /\ next_mapping[t] > Len(_mappings)
    /\ pc' = [pc EXCEPT ![t] = "returned"]
    /\ returned' = [returned EXCEPT ![t] = PyList(result[t])]
    /\ UNCHANGED <<mapper_vars, loads, root, next_mapping, stack, result,
                   state, calls, error, last_run>>

\* whether the innermost frame is about to run its next query
AtQuery(t) ==
    /\ pc[t] = "loading"
    /\ stack[t] # <<>>
    /\ Top(t).m <= Len(Top(t).matches)
    /\ Top(t).q <= Len(TopMapping(t).compiled)

\* a slip in the storing of a value: a null value is not stored
Stored_skip_null(f, attr, value) ==
    IF StartsWithUnderscore(attr)
    THEN [f EXCEPT !.internal_data = SetItem(@, attr, value), !.q = @ + 1]
    ELSE IF IsNone(value) THEN [f EXCEPT !.q = @ + 1]
    ELSE [f EXCEPT !.data = SetItem(@, attr, value), !.q = @ + 1]

\* the frame after query.run returned value for the query of name attr
Stored(f, attr, value) ==
    IF StartsWithUnderscore(attr)
    THEN [f EXCEPT !.internal_data = SetItem(@, attr, value), !.q = @ + 1]
    ELSE [f EXCEPT !.data = SetItem(@, attr, value), !.q = @ + 1]

\* _load_mapping: query.run for an _XPathQuery, and storing its value
RunXPathQuery(t) ==
    /\ AtQuery(t)
    /\ LET f        == Top(t)
           query    == TopMapping(t).compiled[f.q]
           match_el == f.matches[f.m]
           r        == XPathQueryRun(query, _filters, state[t], root[t], match_el)
       IN  /\ query.cls = "xpath"
           /\ last_run' = [last_run EXCEPT ![t] =
                              [ran |-> TRUE, query |-> query,
                               element |-> match_el,
                               found |-> XPathResult(query.xpath, match_el, root[t]),
                               out |-> r,
                               \* what the call had done when the query ran
                               created |-> Len(calls[t]),
                               mapping |-> f.mapping,
                               q |-> f.q,
                               internal_data |-> f.internal_data]]
           /\ IF r.err.kind # "none"
              THEN Raise(t, r.err)
              ELSE /\ stack' = [stack EXCEPT ![t] =
                                   WithTop(t, Stored(f, query.attr, r.value))]
                   /\ UNCHANGED <<pc, error>>
    /\ UNCHANGED <<mapper_vars, loads, root, next_mapping, result, state, calls,
                   returned>>

\* _load_mapping: query.run for a nested _MappingQuery, the call of
\* mapper._load_mapping on the matched element
RunMappingQuery(t) ==
    /\ AtQuery(t)
    /\ LET f     == Top(t)
           query == TopMapping(t).compiled[f.q]
       IN  /\ query.cls = "mapping"
           /\ stack' = [stack EXCEPT ![t] =
                           Append(@, Frame(root[t], f.matches[f.m],
                                           Append(f.mapping, f.q), query))]
    /\ UNCHANGED <<mapper_vars, pc, loads, root, next_mapping, result, state,
                   calls, error, returned, last_run>>

\* a slip in objects.append(obj): objects.insert(0, obj)
AppendObjects_insert_front(objects, obj) == <<obj>> \o objects

\* objects.append(obj)
AppendObjects(objects, obj) == Append(objects, obj)

\* a slip in result.append(obj): result.insert(0, obj)
AppendResult_insert_front(res, obj) == <<obj>> \o res

\* result.append(obj)
AppendResult(res, obj) == Append(res, obj)

\* a slip in _load_mapping: add_object's checks made before the object is
\* created and appended
CreateObject_check_first(t) ==
    /\ pc[t] = "loading"
    /\ stack[t] # <<>>
    /\ Top(t).m <= Len(Top(t).matches)
    /\ Top(t).q > Len(TopMapping(t).compiled)
    /\ LET f        == Top(t)
           mapping  == TopMapping(t)
           match_el == f.matches[f.m]
           obj      == <<t, loads[t], Len(calls[t]) + 1>>
           next     == [f EXCEPT !.objects = AppendObjects(@, obj), !.m = @ + 1,
                                 !.q = 1, !.internal_data = <<>>, !.data = <<>>]
           added    == add_object(state[t], root[t], match_el,
                                  mapping.mapping_type, f.internal_data[K_id], obj)
       IN  IF mapping.has_id /\ added.err.kind # "none"
           THEN /\ Raise(t, added.err)
                /\ UNCHANGED <<state, calls, result>>
           ELSE /\ calls' = [calls EXCEPT ![t] =
                                Append(@, [type |-> mapping.mapping_type,
                                           fields |-> f.data,
                                           obj |-> obj,
                                           element |-> match_el,
                                           internal_data |-> f.internal_data,
                                           mapping |-> f.mapping])]
                /\ result' = [result EXCEPT ![t] = AppendResult(@, obj)]
                /\ stack' = [stack EXCEPT ![t] = WithTop(t, next)]
                /\ state' = [state EXCEPT ![t] =
                                IF mapping.has_id THEN added._objects ELSE @]
                /\ UNCHANGED <<pc, error>>
    /\ UNCHANGED <<mapper_vars, loads, root, next_mapping, returned, last_run>>

\* _load_mapping: object_factory.create, the two appends and add_object,
\* for the matched element whose queries have all run
CreateObject(t) ==
    /\ pc[t] = "loading"
    /\ stack[t] # <<>>
    /\ Top(t).m <= Len(Top(t).matches)
    /\ Top(t).q > Len(TopMapping(t).compiled)
    /\ LET f        == Top(t)
           mapping  == TopMapping(t)
           match_el == f.matches[f.m]
           \* the factory returns an object it has not returned before
           obj      == <<t, loads[t], Len(calls[t]) + 1>>
           next     == [f EXCEPT !.objects = AppendObjects(@, obj), !.m = @ + 1,
                                 !.q = 1, !.internal_data = <<>>, !.data = <<>>]
           added    == add_object(state[t], root[t], match_el,
                                  mapping.mapping_type, f.internal_data[K_id], obj)
       IN  /\ calls' = [calls EXCEPT ![t] =
                           Append(@, [type |-> mapping.mapping_type,
                                      fields |-> f.data,
                                      obj |-> obj,
                                      \* for the properties: the matched
                                      \* element, its internal data and the
                                      \* position of the mapping
                                      element |-> match_el,
                                      internal_data |-> f.internal_data,
                                      mapping |-> f.mapping])]
           /\ result' = [result EXCEPT ![t] = AppendResult(@, obj)]
           /\ IF mapping.has_id /\ added.err.kind # "none"
              THEN /\ Raise(t, added.err)
                   /\ UNCHANGED state
              ELSE /\ stack' = [stack EXCEPT ![t] = WithTop(t, next)]
                   /\ state' = [state EXCEPT ![t] =
                                   IF mapping.has_id THEN added._objects ELSE @]
                   /\ UNCHANGED <<pc, error>>
    /\ UNCHANGED <<mapper_vars, loads, root, next_mapping, returned, last_run>>

\* _load_mapping: the loop over the matches is over; the value goes to the
\* caller (the enclosing _load_mapping stores it, load_file drops it)
ReturnMapping(t) ==
    /\ pc[t] = "loading"
    /\ stack[t] # <<>>
    /\ Top(t).m > Len(Top(t).matches)
    /\ LET f       == Top(t)
           mapping == TopMapping(t)
           r       == ReturnValue(root[t], f.element, mapping.returns_list,
                                  f.objects)
           rest    == SubSeq(stack[t], 1, Len(stack[t]) - 1)
       IN  IF r.err.kind # "none"
           THEN Raise(t, r.err)
           ELSE /\ stack' = [stack EXCEPT ![t] =
                                IF rest = <<>> THEN rest
                                ELSE [rest EXCEPT ![Len(rest)] =
                                         Stored(@, mapping.attr.v, r.value)]]
                /\ UNCHANGED <<pc, error>>
    /\ UNCHANGED <<mapper_vars, loads, root, next_mapping, result, state, calls,
                   returned, last_run>>

\* one step of the thread t
Load(t) ==
    \/ LoadFile(t)
    \/ LoadMapping(t)
    \/ RunXPathQuery(t)
    \/ RunMappingQuery(t)
    \/ CreateObject(t)
    \/ ReturnMapping(t)
    \/ LoadReturn(t)

\* one mapper, used by one thread
Next ==
    \/ \E i \in DOMAIN SpecSets : Construct(SpecSets[i])
    \/ Load("t1")

Spec == Init /\ [][Next]_vars

\* the specification sets of the mapper that two threads use
ConcurrentSets ==
    <<Fixture(M_ref, {}, {E_a1, E_b1}),
      Fixture(M_nested_id, {}, {E_a_b1, E_a_b1b2})>>

\* the one call of load a thread makes on the shared mapper
FirstLoadFile(t) ==
    /\ pc[t] = "idle"
    /\ LoadFile(t)

\* one step of the thread t, which calls load once
LoadOnce(t) ==
    \/ FirstLoadFile(t)
    \/ LoadMapping(t)
    \/ RunXPathQuery(t)
    \/ RunMappingQuery(t)
    \/ CreateObject(t)
    \/ ReturnMapping(t)
    \/ LoadReturn(t)

\* one mapper, used by two threads at once
NextConcurrent ==
    \/ \E i \in DOMAIN ConcurrentSets : Construct(ConcurrentSets[i])
    \/ \E t \in Threads : LoadOnce(t)

SpecConcurrent == Init /\ [][NextConcurrent]_vars

(***************************************************************************)
(* Properties.  What a load call has done is read from the log of the      *)
(* factory's create calls, from the registry and from the latest run of a  *)
(* value query.                                                            *)
(***************************************************************************)
\* the load call of t is over
Finished(t) == pc[t] \in {"returned", "raised"}

\* the objects a field value holds
ObjectsIn(value) ==
    IF value.k = "obj" THEN {value.v}
    ELSE IF value.k = "list" THEN Range(value.v)
    ELSE {}

\* the objects in the field map the factory received with call c
Embedded(c) == UNION {ObjectsIn(c.fields[k]) : k \in DOMAIN c.fields}

\* the positions of obj in the list
IndicesOf(list, obj) == {i \in DOMAIN list : list[i] = obj}

\* the create call of t that returned obj
CallOf(t, obj) == {i \in DOMAIN calls[t] : calls[t][i].obj = obj}

\* the name of the field a compiled query fills
AttrOf(query) == IF query.cls = "mapping" THEN query.attr.v ELSE query.attr

\* the compiled query of the field k of the type
FieldQuery(type, k) ==
    LET compiled == _types[type].compiled
    IN  compiled[CHOOSE q \in DOMAIN compiled : AttrOf(compiled[q]) = k]

\* the list load builds and, once it is returned, the list it returned
Lists(t) ==
    {result[t]} \cup (IF pc[t] = "returned" THEN {returned[t].v} ELSE {})

\* C1: in the list load returns (and in the list as it grows), every object
\* in the field map of an object, nested (alone or in a list) or obtained
\* through a reference, stands at a strictly smaller index than the object
\* holding it, and the factory created it in an earlier call.
C1_EmbeddedBeforeHolder ==
    \A t \in Threads : \A i \in DOMAIN calls[t] :
        \A o \in Embedded(calls[t][i]) :
            /\ \E j \in CallOf(t, o) : j < i
            /\ \A list \in Lists(t) :
                  /\ IndicesOf(list, o) # {}
                  /\ IndicesOf(list, calls[t][i].obj) # {}
                  /\ \A a \in IndicesOf(list, o) :
                        \A b \in IndicesOf(list, calls[t][i].obj) : a < b

\* a load has returned a list in which one object holds a nonempty list of
\* nested objects and another holds a referenced object
C1_Witness ==
    \E t \in Threads :
        /\ pc[t] = "returned"
        /\ \E i \in DOMAIN calls[t] : \E k \in DOMAIN calls[t][i].fields :
              /\ calls[t][i].fields[k].k = "list"
              /\ calls[t][i].fields[k].v # <<>>
        /\ \E i \in DOMAIN calls[t] : \E k \in DOMAIN calls[t][i].fields :
              /\ calls[t][i].fields[k].k = "obj"
              /\ FieldQuery(calls[t][i].type, k).cls = "xpath"

\* the specification set of C2 loaded on <r><b aid="1"/><a id="1"/></r>
\* and on <r><a id="1"/><b aid="1"/></r>
LoadsRefOn(t, tops) ==
    /\ phase = "ready"
    /\ args.mappings = M_ref
    /\ loads[t] > 0
    /\ root[t] = Parse(Xml(tops))

\* the two create calls of C2: a's, then b's with a's object as its field
TwoCallsRef(t) ==
    /\ pc[t] = "returned"
    /\ Len(calls[t]) = 2
    /\ calls[t][1].type = N_a
    /\ calls[t][2].type = N_b
    /\ calls[t][2].fields[F_ref] = PyObj(calls[t][1].obj)
    /\ returned[t] = PyList(<<calls[t][1].obj, calls[t][2].obj>>)

\* C2 as stated: with the specifications [a with _id, matching /r/a] and
\* [b matching /r/b, with a field referencing a], a document with the b
\* element before the a element it references fails with the
\* undefined-reference error on the b element, and the document with a
\* before b succeeds with two create calls.
C2_Original ==
    \A t \in Threads :
        /\ LoadsRefOn(t, <<E_b1, E_a1>>) /\ Finished(t) =>
              /\ pc[t] = "raised"
              /\ error[t].kind = "undefined_reference"
              /\ error[t].tag = N_b
        /\ LoadsRefOn(t, <<E_a1, E_b1>>) /\ Finished(t) => TwoCallsRef(t)

\* C2 amended: with those specifications, both orders of the two elements
\* succeed with the same two create calls, a's first and then b's with a's
\* object as its reference field, since the mapping of a runs over the
\* whole document before the mapping of b; the load never raises, whatever
\* it has reached.  The undefined-reference error is reported on the b
\* element when no a element of the document has the identifier.
C2_ReferenceAcrossDocumentOrder ==
    \A t \in Threads :
        /\ \A tops \in {<<E_b1, E_a1>>, <<E_a1, E_b1>>} :
              LoadsRefOn(t, tops) =>
                  /\ pc[t] # "raised"
                  /\ Finished(t) => TwoCallsRef(t)
        /\ \A tops \in {<<E_b1, E_a2>>, <<E_a2, E_b1>>, <<E_b1>>} :
              LoadsRefOn(t, tops) /\ Finished(t) =>
                  /\ pc[t] = "raised"
                  /\ error[t].kind = "undefined_reference"
                  /\ error[t].tag = N_b
                  /\ error[t].line = CHOOSE n \in DOMAIN root[t] :
                                        root[t][n].tag = N_b
                  /\ \A i \in DOMAIN calls[t] : calls[t][i].type = N_a

\* the load of the document with b before a has returned its two objects
C2_Witness ==
    \E t \in Threads :
        /\ LoadsRefOn(t, <<E_b1, E_a1>>)
        /\ TwoCallsRef(t)

\* the create calls made before the position "made" of the log that
\* registered the identifier v for the type
RegisteredBefore(t, made, type, v) ==
    {i \in 1..made :
        /\ calls[t][i].type = type
        /\ K_id \in DOMAIN calls[t][i].internal_data
        /\ calls[t][i].internal_data[K_id].k = "str"
        /\ v.k = "str"
        /\ calls[t][i].internal_data[K_id].v = v.v}

\* the latest query run of t evaluated a reference field
RanReference(t) ==
    /\ last_run[t].ran
    /\ last_run[t].out.branch = "get_object"

\* the load call of t failed with the error of this kind on the element
RaisedOn(t, kind, element) ==
    /\ pc[t] = "raised"
    /\ error[t].kind = kind
    /\ error[t].tag = root[t][element].tag
    /\ error[t].line = root[t][element].line

\* C3: a reference field of kind T evaluated with identifier v: when no
\* element of type T with identifier v was created and registered earlier
\* in the same load call, the call fails with the undefined-reference error
\* carrying the tag and line of the referencing element; otherwise the value
\* is the object the factory returned for the one element that registered
\* (T, v).
C3_ReferenceResolution ==
    \A t \in Threads :
        RanReference(t) =>
            LET run  == last_run[t]
                regs == RegisteredBefore(t, run.created, run.query.value_type,
                                         run.out.str_value)
            IN  IF regs = {}
                THEN /\ run.out.err.kind = "undefined_reference"
                     /\ RaisedOn(t, "undefined_reference", run.element)
                     /\ run.out.err = error[t]
                ELSE /\ run.out.err.kind = "none"
                     /\ Cardinality(regs) = 1
                     /\ \A i \in regs : run.out.value = PyObj(calls[t][i].obj)

\* a reference was evaluated after an element of the call was created, with
\* an identifier that none had registered, and the call failed on the
\* referencing element
C3_Witness ==
    \E t \in Threads :
        /\ RanReference(t)
        /\ last_run[t].created > 0
        /\ last_run[t].out.str_value.k = "str"
        /\ RaisedOn(t, "undefined_reference", last_run[t].element)

\* the _type names of the specifications in a raw value, one entry for each
\* specification, nested ones included
RECURSIVE TypesOf(_)
RECURSIVE TypesOfEach(_, _)
TypesOf(raw) ==
    IF raw.t = "dict"
    THEN (IF K_type \in DOMAIN raw.v THEN <<raw.v[K_type].v>> ELSE <<>>)
         \o TypesOfEach(raw.v, Sorted(DOMAIN raw.v))
    ELSE IF raw.t = "list"
    THEN TypesOfEach(raw.v, [i \in DOMAIN raw.v |-> i])
    ELSE <<>>

TypesOfEach(m, keys) ==
    IF keys = <<>> THEN <<>>
    ELSE TypesOf(m[keys[1]]) \o TypesOfEach(m, Tail(keys))

\* two specifications of the set share a _type
SharesType(mappings) ==
    LET names == TypesOfEach(mappings, [i \in DOMAIN mappings |-> i])
    IN  \E i, j \in DOMAIN names : i # j /\ names[i] = names[j]

\* C4 as stated: constructing a mapper from a specification set in which
\* two specifications have the same _type always fails with the
\* duplicate-type error, also when one is nested, at any depth, inside the
\* other.
C4_DuplicateTypeRejected ==
    phase # "new" /\ SharesType(args.mappings) =>
        /\ phase = "failed"
        /\ syntax_error.kind = "duplicate_type"

\* the objects the factory has created in the current call of t
Created(t) == {calls[t][i].obj : i \in DOMAIN calls[t]}

\* C5: every load call on a mapper, after calls that returned or raised,
\* starts with an empty registry and an empty result list: the registry
\* holds only objects of the current call, a reference resolves only to an
\* object created in the current call, a duplicate-id error is raised only
\* against an identifier registered in the current call, and the list built
\* and returned holds only objects created in the current call.
C5_CallsAreIndependent ==
    \A t \in Threads :
        /\ pc[t] = "loading" /\ calls[t] = <<>> =>
              state[t] = <<>> /\ result[t] = <<>>
        /\ \A key \in DOMAIN state[t] :
              /\ state[t][key] \in Created(t)
              /\ state[t][key][2] = loads[t]
        /\ RanReference(t) /\ last_run[t].out.value.k = "obj" =>
              /\ last_run[t].out.value.v \in Created(t)
              /\ last_run[t].out.value.v[2] = loads[t]
        /\ pc[t] = "raised" /\ error[t].kind = "duplicate_id" =>
              RegisteredBefore(t, Len(calls[t]) - 1,
                               calls[t][Len(calls[t])].type,
                               calls[t][Len(calls[t])].internal_data[K_id]) # {}
        /\ \A list \in Lists(t) :
              /\ Range(list) \subseteq Created(t)
              /\ \A i \in DOMAIN list : list[i][2] = loads[t]

\* a later call on the mapper has created and registered an object and then
\* failed on a reference to an identifier that call had not registered
C5_Witness ==
    \E t \in Threads :
        /\ loads[t] > 1
        /\ DOMAIN state[t] # {}
        /\ RanReference(t)
        /\ RaisedOn(t, "undefined_reference", last_run[t].element)

\* the create calls of t for elements of a type that declares _id and whose
\* _id is not null
Identified(t) ==
    {i \in DOMAIN calls[t] :
        /\ K_id \in DOMAIN calls[t][i].internal_data
        /\ calls[t][i].internal_data[K_id].k = "str"}

\* the calls before the call i that registered its type and identifier
SamePairBefore(t, i) ==
    RegisteredBefore(t, i - 1, calls[t][i].type, calls[t][i].internal_data[K_id])

\* C6: within one load call, registering an element of a type that declares
\* _id fails with the duplicate-id error, carrying the later element's tag
\* and line, exactly when the same (type, identifier) pair was registered
\* earlier in the call, under whatever parent; otherwise the element is
\* registered, the same identifier under another type being no conflict.
C6_DuplicateIdIffSamePair ==
    \A t \in Threads :
        /\ \A i \in Identified(t) :
              /\ SamePairBefore(t, i) # {} <=>
                    /\ i = Len(calls[t])
                    /\ RaisedOn(t, "duplicate_id", calls[t][i].element)
              /\ SamePairBefore(t, i) = {} =>
                    LET key == <<calls[t][i].type, calls[t][i].internal_data[K_id]>>
                    IN  /\ key \in DOMAIN state[t]
                        /\ state[t][key] = calls[t][i].obj
        /\ pc[t] = "raised" /\ error[t].kind = "duplicate_id" =>
              Len(calls[t]) \in Identified(t)

\* a load failed on the second of two elements of one type and identifier
\* that were matched under different parents, after an element of another
\* type was registered
C6_Witness ==
    \E t \in Threads :
        /\ pc[t] = "raised"
        /\ error[t].kind = "duplicate_id"
        /\ \E j \in SamePairBefore(t, Len(calls[t])) :
              root[t][calls[t][j].element].parent
                 # root[t][calls[t][Len(calls[t])].element].parent

\* a load registered one identifier under two types and returned
C6_WitnessTwoTypes ==
    \E t \in Threads :
        /\ pc[t] = "returned"
        /\ \E i, j \in Identified(t) :
              /\ calls[t][i].type # calls[t][j].type
              /\ calls[t][i].internal_data[K_id] = calls[t][j].internal_data[K_id]

\* the latest query run of t was for an element whose _id had yielded no
\* result, or was the run of that _id
RanWithNullId(t) ==
    /\ last_run[t].ran
    /\ \/ /\ K_id \in DOMAIN last_run[t].internal_data
          /\ IsNone(last_run[t].internal_data[K_id])
       \/ /\ last_run[t].query.attr = K_id
          /\ last_run[t].out.err.kind = "none"
          /\ IsNone(last_run[t].out.value)

\* the create calls of t for elements whose _id yielded no result
Unidentified(t) ==
    {i \in DOMAIN calls[t] :
        /\ K_id \in DOMAIN calls[t][i].internal_data
        /\ IsNone(calls[t][i].internal_data[K_id])}

\* C7 as stated: for a mapping that declares _id, a matched element whose
\* _id path yields no result makes the load call fail with the null-id
\* error carrying that element's tag and line.
C7_Original ==
    \A t \in Threads :
        Finished(t) /\ RanWithNullId(t) =>
            RaisedOn(t, "null_id", last_run[t].element)

\* C7 amended: a matched element whose _id path yields no result makes the
\* load call fail: with the null-id error carrying that element's tag and
\* line once the other fields of the element have been evaluated without an
\* error and the factory has created its object, and otherwise with the
\* error the field that failed first raised for that element or an element
\* nested in it.  No object is ever registered under a null identifier.
C7_NullIdFailsTheLoad ==
    \A t \in Threads :
        /\ \A key \in DOMAIN state[t] : ~IsNone(key[2])
        /\ \A i \in Unidentified(t) :
              /\ i = Len(calls[t])
              /\ RaisedOn(t, "null_id", calls[t][i].element)
              /\ calls[t][i].obj \notin Range(state[t])
        /\ RanWithNullId(t) => pc[t] # "returned"
        /\ Finished(t) /\ RanWithNullId(t) =>
              \/ /\ RaisedOn(t, "null_id", last_run[t].element)
                 /\ Unidentified(t) = {Len(calls[t])}
              \/ /\ error[t] = last_run[t].out.err
                 /\ last_run[t].out.err.kind # "none"
                 /\ Unidentified(t) = {}

\* a load failed with the null-id error on an element that has another
\* field, which was evaluated without error
C7_Witness ==
    \E t \in Threads :
        /\ RanWithNullId(t)
        /\ last_run[t].query.attr # K_id
        /\ RaisedOn(t, "null_id", last_run[t].element)

\* the latest query run of t was of a path that matched no attribute and
\* no element
RanEmpty(t) ==
    /\ last_run[t].ran
    /\ last_run[t].found.list
    /\ last_run[t].found.items = <<>>

\* C8 as stated: for every value kind (string, int, float, bool, a filter,
\* a referenced type), a field whose path matches no attribute and no
\* element resolves to null and the load call does not fail because of it.
C8_Original ==
    \A t \in Threads :
        RanEmpty(t) =>
            /\ last_run[t].out.err.kind = "none"
            /\ IsNone(last_run[t].out.value)

\* C8 amended: a field whose path matches no attribute and no element
\* resolves to null, without failing the load, for the kinds string, int,
\* float and bool; for a filter kind the filter is called with null and the
\* value is what it returns ('+None+' from the filter foo, 0 from
\* min_age); for a referenced type the load fails with the
\* undefined-reference error on the matched element.
C8_MissingValueByKind ==
    \A t \in Threads :
        RanEmpty(t) =>
            LET run  == last_run[t]
                kind == run.query.value_type
            IN  /\ IsNone(run.out.str_value)
                /\ IF kind \in _VALUE_TYPES
                   THEN /\ run.out.err.kind = "none"
                        /\ IsNone(run.out.value)
                   ELSE IF kind \in _filters
                   THEN /\ run.out.err.kind = "none"
                        /\ kind = T_foo =>
                              run.out.value = PyStr(<<"+">> \o S_None \o <<"+">>)
                        /\ kind = T_min_age => run.out.value = PyInt(0)
                   ELSE /\ run.out.err.kind = "undefined_reference"
                        /\ RaisedOn(t, "undefined_reference", run.element)

\* a field of kind bool has been evaluated on a path that matched nothing
C8_Witness ==
    \E t \in Threads :
        /\ RanEmpty(t)
        /\ last_run[t].query.value_type = T_bool
        /\ IsNone(last_run[t].out.value)
        /\ pc[t] = "loading"

\* the latest query run of t was of a path that yielded exactly one text
RanOneText(t) ==
    /\ last_run[t].ran
    /\ last_run[t].found.list
    /\ Len(last_run[t].found.items) = 1
    /\ last_run[t].out.str_value.k = "str"

\* the text is a literal of the kind, as C9 has it
ValidLiteral(kind, text) ==
    CASE kind = T_int -> IsIntLiteral(text)
      [] kind = T_float -> IsFloatLiteral(text)
      [] kind = T_bool -> Lower(text) \in {S_true, S_false}

\* C9 as stated: for a field of kind int, float or bool whose path yields
\* exactly one text, the load fails with the invalid-literal error, naming
\* the kind and the text and carrying the matched element's tag and line,
\* whenever the text is not a valid literal of the kind; for bool the valid
\* literals are "true" and "false" in any letter case.
C9_InvalidLiteralRejected ==
    \A t \in Threads :
        /\ RanOneText(t)
        /\ last_run[t].query.value_type \in {T_int, T_float, T_bool}
        /\ ~ValidLiteral(last_run[t].query.value_type,
                         last_run[t].out.str_value.v)
        => /\ last_run[t].out.err.kind = "invalid_literal"
           /\ last_run[t].out.err.info
                 = <<last_run[t].query.value_type, last_run[t].out.str_value.v>>
           /\ RaisedOn(t, "invalid_literal", last_run[t].element)

\* what holds of the code: C9 for the kinds int and float
C9_IntFloatRejected ==
    \A t \in Threads :
        /\ RanOneText(t)
        /\ last_run[t].query.value_type \in {T_int, T_float}
        /\ ~ValidLiteral(last_run[t].query.value_type,
                         last_run[t].out.str_value.v)
        => /\ last_run[t].out.err.kind = "invalid_literal"
           /\ last_run[t].out.err.info
                 = <<last_run[t].query.value_type, last_run[t].out.str_value.v>>
           /\ RaisedOn(t, "invalid_literal", last_run[t].element)

\* the latest query run of t was of a path that returned several nodes
RanMany(t) ==
    /\ last_run[t].ran
    /\ last_run[t].found.list
    /\ Len(last_run[t].found.items) > 1

\* C10: a scalar field of any kind whose path returns more than one node
\* makes the load fail with the multiple-elements error carrying the tag
\* and line of the matched element whose fields are evaluated, not of a
\* result node, and run raises it in _get_string, before any conversion,
\* filter call or registry lookup.
C10_MultipleElementsRejected ==
    \A t \in Threads :
        RanMany(t) =>
            /\ last_run[t].out.err.kind = "multiple_elements"
            /\ last_run[t].out.branch = "_get_string"
            /\ IsNone(last_run[t].out.value)
            /\ last_run[t].out.err = error[t]
            /\ RaisedOn(t, "multiple_elements", last_run[t].element)
            /\ \A i \in DOMAIN last_run[t].found.items :
                  last_run[t].found.items[i].el # 0 =>
                      error[t].line # root[t][last_run[t].found.items[i].el].line

\* a field of a filter kind was evaluated on a path that returned two
\* elements, and the load failed
C10_Witness ==
    \E t \in Threads :
        /\ RanMany(t)
        /\ last_run[t].query.value_type \in _filters
        /\ pc[t] = "raised"

\* the positions of the compiled queries in and under the queries, each the
\* path from a top-level mapping
RECURSIVE PathsOf(_, _)
PathsOf(queries, prefix) ==
    UNION {{Append(prefix, q)}
           \cup (IF queries[q].cls = "mapping"
                 THEN PathsOf(queries[q].compiled, Append(prefix, q))
                 ELSE {}) : q \in DOMAIN queries}

\* the elements the match path of the nested mapping at the path selects
\* under the element of the document, in document order
MatchesOf(doc, path, element) ==
    LET found == XPathResult(QueryAt(_mappings, path).match, element, doc).items
    IN  [i \in DOMAIN found |-> found[i].el]

\* the same, in the document of t
MatchesUnder(t, path, element) == MatchesOf(root[t], path, element)

\* the value the create call c or its registration got for the field attr
FieldValue(c, attr) ==
    IF StartsWithUnderscore(attr) THEN c.internal_data[attr] ELSE c.fields[attr]

\* the create calls of t for the element under the mapping at the path
CallsFor(t, path, element) ==
    {j \in DOMAIN calls[t] :
        calls[t][j].mapping = path /\ calls[t][j].element = element}

\* the nested mappings of the mapping at the path that are (or are not)
\* wrapped in a list
NestedFields(path, returns_list) ==
    LET compiled == QueryAt(_mappings, path).compiled
    IN  {q \in DOMAIN compiled :
            /\ compiled[q].cls = "mapping"
            /\ compiled[q].returns_list = returns_list}

C11_WitnessNull ==
    \E t \in Threads :
        /\ pc[t] = "returned"
        /\ \E i \in DOMAIN calls[t] :
              \E q \in NestedFields(calls[t][i].mapping, FALSE) :
                 MatchesUnder(t, Append(calls[t][i].mapping, q),
                              calls[t][i].element) = <<>>

\* C12: the value of a list-wrapped nested-mapping field is the list of the
\* objects the factory returned for the elements its match path selects
\* under the enclosing matched element, one for each and in document order
\* (the empty list when it selects none): it holds no object produced for
\* an element under another enclosing element.
C12_ListNestedValue ==
    \A t \in Threads : \A i \in DOMAIN calls[t] :
        LET c == calls[t][i]
        IN  \A q \in NestedFields(c.mapping, TRUE) :
               LET path  == Append(c.mapping, q)
                   found == MatchesUnder(t, path, c.element)
                   value == FieldValue(c, AttrOf(QueryAt(_mappings, path)))
               IN  /\ value.k = "list"
                   /\ Len(value.v) = Len(found)
                   /\ \A k \in DOMAIN found :
                         \E j \in CallsFor(t, path, found[k]) :
                            j < i /\ calls[t][j].obj = value.v[k]

\* in one load, an object was created with a list of two nested objects and
\* another, for an element without nested matches, with the empty list
C12_Witness ==
    \E t \in Threads : \E i, j \in DOMAIN calls[t] :
        /\ pc[t] = "returned"
        /\ calls[t][i].mapping = calls[t][j].mapping
        /\ \E q \in NestedFields(calls[t][i].mapping, TRUE) :
              LET attr == AttrOf(QueryAt(_mappings, Append(calls[t][i].mapping, q)))
              IN  /\ Len(MatchesUnder(t, Append(calls[t][i].mapping, q),
                                      calls[t][i].element)) = 2
                  /\ Len(FieldValue(calls[t][i], attr).v) = 2
                  /\ FieldValue(calls[t][j], attr).v = <<>>

\* the specification (of the arguments of the mapper) that was compiled to
\* the mapping at the path
RECURSIVE RawAt(_, _)
RawAt(path, n) ==
    IF n = 1 THEN args.mappings[path[1]]
    ELSE LET v == RawAt(path, n - 1).v[AttrOf(QueryAt(_mappings, SubSeq(path, 1, n)))]
         IN  IF v.t = "list" THEN v.v[1] ELSE v

\* the keys of the specification that do not begin with '_'
PublicKeys(raw) == {k \in DOMAIN raw.v : ~StartsWithUnderscore(k)}

\* C13: every create call of the factory receives the type name of the
\* mapping and a field map whose keys are exactly the field names of the
\* specification that do not begin with '_', each present even when its
\* value is null; no key beginning with '_' is passed.
C13_FactoryReceivesPublicFields ==
    \A t \in Threads : \A i \in DOMAIN calls[t] :
        LET c   == calls[t][i]
            raw == RawAt(c.mapping, Len(c.mapping))
        IN  /\ c.type = raw.v[K_type].v
            /\ DOMAIN c.fields = PublicKeys(raw)
            /\ \A k \in DOMAIN c.fields : ~StartsWithUnderscore(k)

\* the factory was called for a mapping with _id and received a null field
\* and a field that is not null
C13_Witness ==
    \E t \in Threads : \E i \in DOMAIN calls[t] :
        LET c == calls[t][i]
        IN  /\ K_id \in DOMAIN RawAt(c.mapping, Len(c.mapping)).v
            /\ K_id \in DOMAIN c.internal_data
            /\ \E k \in DOMAIN c.fields : IsNone(c.fields[k])
            /\ \E k \in DOMAIN c.fields : ~IsNone(c.fields[k])

\* one step of the traversal of the specifications: a mapping is entered
\* ("enter") or finished ("done"), a query string is compiled ("field"), or
\* a value that is no mapping and no query string is met ("stop")
Event(ev, type, attr, kind, has_id) ==
    [ev |-> ev, type |-> type, attr |-> attr, kind |-> kind, has_id |-> has_id]

\* the traversal of a specification: its fields in ascending name order, a
\* nested specification where its field stands
RECURSIVE Events(_)
RECURSIVE FieldEvents(_, _, _)
Events(raw) ==
    IF \/ raw.t # "dict"
       \/ {K_type, K_match} \cap DOMAIN raw.v # {K_type, K_match}
       \/ raw.v[K_type].t # "str"
       \/ raw.v[K_match].t # "str"
    THEN <<Event("stop", <<>>, <<>>, PyNone, FALSE)>>
    ELSE LET type == raw.v[K_type].v
         IN  <<Event("enter", type, <<>>, PyNone, FALSE)>>
             \o FieldEvents(raw.v, type, Sorted(DOMAIN raw.v \ {K_type, K_match}))
             \o <<Event("done", type, <<>>, PyNone, K_id \in DOMAIN raw.v)>>

FieldEvents(m, type, keys) ==
    IF keys = <<>> THEN <<>>
    ELSE LET v == m[keys[1]]
         IN  (IF v.t = "dict" THEN Events(v)
              ELSE IF v.t = "list" /\ Len(v.v) = 1 THEN Events(v.v[1])
              ELSE IF v.t = "str"
              THEN <<Event("field", type, keys[1], RxQueryMatch(v.v).type, FALSE)>>
              ELSE <<Event("stop", type, keys[1], PyNone, FALSE)>>)
             \o FieldEvents(m, type, Tail(keys))

\* the traversal of the specifications from the i-th on, in list order
RECURSIVE EventsFrom(_, _)
EventsFrom(mappings, i) ==
    IF i > Len(mappings) THEN <<>>
    ELSE Events(mappings[i]) \o EventsFrom(mappings, i + 1)

\* the step compiles a query string whose kind prefix is not a built-in
\* kind and not a filter
IsReference(e) ==
    /\ e.ev = "field"
    /\ e.kind.k = "str"
    /\ e.kind.v \notin _VALUE_TYPES \cup args.filters

\* the mappings of the type name that finished before the step i
FinishedBefore(ev, i, name) ==
    {j \in 1..(i - 1) : ev[j].ev = "done" /\ ev[j].type = name}

\* the error the reference at the step i is to fail with ("none": it is valid)
ReferenceError(ev, i) ==
    LET before == FinishedBefore(ev, i, ev[i].kind.v)
    IN  IF before = {} THEN "unknown_value_type"
        ELSE IF ~ev[Max(before)].has_id THEN "invalid_value_type"
        ELSE "none"

\* the references of the traversal that are not valid
BadReferences(ev) ==
    {i \in DOMAIN ev : IsReference(ev[i]) /\ ReferenceError(ev, i) # "none"}

\* the steps at which the compilation fails, for whatever reason
Problems(ev) ==
    BadReferences(ev)
    \cup {i \in DOMAIN ev :
            \/ ev[i].ev = "stop"
            \/ ev[i].ev = "enter" /\ FinishedBefore(ev, i, ev[i].type) # {}
            \/ /\ ev[i].ev = "field"
               /\ ev[i].attr = K_id
               /\ ev[i].kind.k = "str"
               /\ ev[i].kind.v # T_string}

\* C14: a field whose kind prefix is not a built-in kind and not a filter
\* fails, when the compilation gets to it, with the unknown-value-type error
\* when no type of that name has finished compiling earlier in the traversal
\* (specifications in list order, fields in ascending name order), and with
\* the invalid-reference-type error when such a type has but declares no
\* _id; the errors are raised for no other field, and a specification set
\* with such a field (a reference to a type declared later in the list is
\* one) never compiles.
C14_ReferenceToCompiledTypeWithId ==
    phase # "new" =>
        LET ev  == EventsFrom(args.mappings, 1)
            bad == BadReferences(ev)
        IN  /\ bad # {} => phase = "failed"
            /\ bad # {} /\ Min(Problems(ev)) \in bad =>
                  syntax_error = SyntaxError(ReferenceError(ev, Min(bad)),
                                             ev[Min(bad)].type, ev[Min(bad)].attr)
            /\ syntax_error.kind \in {"unknown_value_type", "invalid_value_type"} =>
                  bad # {} /\ Min(Problems(ev)) \in bad

\* construction failed with the unknown-value-type error on a field that
\* references a type a later specification of the list declares with _id
C14_Witness ==
    /\ phase = "failed"
    /\ syntax_error.kind = "unknown_value_type"
    /\ LET ev == EventsFrom(args.mappings, 1)
       IN  \E i, j \in DOMAIN ev :
              /\ i = Min(Problems(ev))
              /\ i < j
              /\ IsReference(ev[i])
              /\ ev[j].ev = "done" /\ ev[j].type = ev[i].kind.v /\ ev[j].has_id

\* construction failed with the invalid-reference-type error on a field that
\* references a type compiled earlier without _id
C14_WitnessNoId ==
    /\ phase = "failed"
    /\ syntax_error.kind = "invalid_value_type"
    /\ LET ev == EventsFrom(args.mappings, 1)
       IN  FinishedBefore(ev, Min(Problems(ev)), ev[Min(Problems(ev))].kind.v) # {}

\* the value of a field is neither a query string, nor a nested
\* specification, nor a one-element list of a nested specification
InvalidFieldValue(v) ==
    /\ v.t \notin {"str", "dict"}
    /\ ~(v.t = "list" /\ Len(v.v) = 1 /\ v.v[1].t = "dict")

\* the first specification of the list has _type and _match, and its first
\* field in ascending name order is the first step at which the compilation
\* fails
FirstFieldFails(mappings) ==
    /\ mappings # <<>>
    /\ mappings[1].t = "dict"
    /\ LET ev == Events(mappings[1])
       IN  /\ ev[1].ev = "enter"
           /\ DOMAIN mappings[1].v # {K_type, K_match}
           /\ Problems(ev) # {}
           /\ Min(Problems(ev)) = 2

\* the first field in ascending name order
FirstField(mapping) == mapping.v[Sorted(DOMAIN mapping.v \ {K_type, K_match})[1]]

\* C15 as stated: compiling a specification fails with the invalid-field-spec
\* error for every field value that is neither a query string, nor a nested
\* specification, nor a one-element list of a nested specification: a
\* number, an empty list, a list of two or more elements, and a one-element
\* list whose element is not a specification (a string, a number).
C15_InvalidFieldSpecRejected ==
    /\ phase # "new"
    /\ FirstFieldFails(args.mappings)
    /\ InvalidFieldValue(FirstField(args.mappings[1]))
    => /\ phase = "failed"
       /\ syntax_error.kind = "invalid_query_type"

\* what the code does: the invalid-field-spec error for a number and for a
\* list that has not exactly one element; for a one-element list the element
\* is compiled as a specification, whatever it is
C15_OtherLengthsRejected ==
    /\ phase # "new"
    /\ FirstFieldFails(args.mappings)
    /\ InvalidFieldValue(FirstField(args.mappings[1]))
    => /\ phase = "failed"
       /\ LET v == FirstField(args.mappings[1])
          IN  IF v.t = "list" /\ Len(v.v) = 1
              THEN syntax_error.kind =
                      IF v.v[1].t = "str" THEN "missing_type" ELSE "TypeError"
              ELSE syntax_error = SyntaxError("invalid_query_type",
                                              args.mappings[1].v[K_type].v, <<>>)

\* the compiled queries of the name _id, in the mappings at every depth
IdQueries ==
    {QueryAt(_mappings, path) : path \in
        {p \in PathsOf(_mappings, <<>>) : AttrOf(QueryAt(_mappings, p)) = K_id}}

\* C16 as stated: in every specification set that compiles, each _id entry
\* is a value query of the plain string kind: an _id with any other kind
\* prefix, or given as a nested specification or a list-wrapped one, makes
\* the construction fail.
C16_IdIsPlainString ==
    phase = "ready" =>
        \A query \in IdQueries :
            query.cls = "xpath" /\ query.value_type = T_string

\* what the code does: the kind of _id is checked where a query string is
\* compiled, and nowhere else
C16_IdQueryStringIsPlain ==
    phase = "ready" =>
        \A query \in IdQueries :
            query.cls = "xpath" => query.value_type = T_string

\* the create calls _load_mapping makes for the mapping at the path on the
\* element when nothing raises: for each match in document order, those of
\* its nested mappings in the order of the fields, then its own
RECURSIVE TraversalOf(_, _, _)
RECURSIVE OverMatches(_, _, _, _)
RECURSIVE OverQueries(_, _, _, _)
TraversalOf(doc, path, element) ==
    LET found == XPathResult(QueryAt(_mappings, path).match, element, doc).items
    IN  OverMatches(doc, path, [i \in DOMAIN found |-> found[i].el], 1)

OverMatches(doc, path, matches, i) ==
    IF i > Len(matches) THEN <<>>
    ELSE OverQueries(doc, path, matches[i], 1)
         \o <<[mapping |-> path, element |-> matches[i]]>>
         \o OverMatches(doc, path, matches, i + 1)

OverQueries(doc, path, element, q) ==
    IF q > Len(QueryAt(_mappings, path).compiled) THEN <<>>
    ELSE (IF QueryAt(_mappings, path).compiled[q].cls = "mapping"
          THEN TraversalOf(doc, Append(path, q), element)
          ELSE <<>>)
         \o OverQueries(doc, path, element, q + 1)

\* the create calls load_file makes on the document for the top-level
\* mappings from the i-th on when nothing raises
RECURSIVE Traversal(_, _)
Traversal(doc, i) ==
    IF i > Len(_mappings) THEN <<>>
    ELSE TraversalOf(doc, <<i>>, 0) \o Traversal(doc, i + 1)

\* the create calls made: for which mapping, on which element
Made(cs) == [i \in DOMAIN cs |-> [mapping |-> cs[i].mapping, element |-> cs[i].element]]

IsPrefix(s, seq) == Len(s) <= Len(seq) /\ s = SubSeq(seq, 1, Len(s))

\* the load call of t does nothing in the step
Halted(t) ==
    /\ pc'[t] = pc[t] /\ error'[t] = error[t] /\ stack'[t] = stack[t]
    /\ calls'[t] = calls[t] /\ state'[t] = state[t] /\ result'[t] = result[t]
    /\ returned'[t] = returned[t] /\ last_run'[t] = last_run[t]

\* C17: once a loading error is raised in a load call, the call is over: its
\* frames are gone and it returns no list, and until the next load call no
\* field is evaluated, no create call is made and the registry gets no
\* entry; the create calls made up to the error are a prefix of the calls
\* the traversal makes when nothing raises, and they stay made.
C17_ErrorEndsTheCall ==
    [][\A t \in Threads :
          /\ error'[t].kind # "none" =>
                /\ pc'[t] = "raised"
                /\ stack'[t] = <<>>
                /\ IsNone(returned'[t])
                /\ IsPrefix(Made(calls'[t]), Traversal(root'[t], 1))
          /\ error[t].kind = "none" /\ error'[t].kind # "none" =>
                IsPrefix(calls[t], calls'[t])
          /\ error[t].kind # "none" =>
                \/ Halted(t)
                \/ /\ pc'[t] = "loading"
                   /\ loads'[t] = loads[t] + 1
                   /\ error'[t] = NoError]_vars

\* a load call raised after the factory was called, while the traversal
\* without the error makes more calls than were made
C17_Witness ==
    \E t \in Threads :
        /\ pc[t] = "raised"
        /\ calls[t] # <<>>
        /\ Len(calls[t]) < Len(Traversal(root[t], 1))

\* C18: the top-level mappings are executed one after another in the order
\* of the specification list, each against the whole document: in the list
\* load builds and returns, every object produced while the top-level
\* mapping i is executed (its nested objects included) precedes every object
\* produced while a top-level mapping j > i is, wherever the matched elements
\* are in the document, and the objects of one mapping are in the document
\* order of their elements.
C18_MappingsInListOrder ==
    \A t \in Threads : \A list \in Lists(t) :
        /\ Len(list) = Len(calls[t])
        /\ \A x, y \in DOMAIN list :
              x < y =>
                 \E i \in CallOf(t, list[x]) : \E j \in CallOf(t, list[y]) :
                    /\ calls[t][i].mapping[1] <= calls[t][j].mapping[1]
                    /\ calls[t][i].mapping = calls[t][j].mapping =>
                          calls[t][i].element < calls[t][j].element

\* load returned a list in which the object of an element stands before the
\* object of an element that comes earlier in the document, matched by a
\* later top-level mapping, and before the object of a later element of its
\* own mapping
C18_Witness ==
    \E t \in Threads :
        /\ pc[t] = "returned"
        /\ \E x, y \in DOMAIN returned[t].v :
              \E i \in CallOf(t, returned[t].v[x]) :
                 \E j \in CallOf(t, returned[t].v[y]) :
                    /\ x < y
                    /\ calls[t][i].mapping[1] < calls[t][j].mapping[1]
                    /\ calls[t][i].element > calls[t][j].element
        /\ \E x, y \in DOMAIN returned[t].v :
              \E i \in CallOf(t, returned[t].v[x]) :
                 \E j \in CallOf(t, returned[t].v[y]) :
                    /\ x < y
                    /\ calls[t][i].mapping = calls[t][j].mapping

\* the latest query run of t was of a field whose kind is a filter
RanFilter(t) ==
    /\ last_run[t].ran
    /\ last_run[t].query.value_type \in _filters \ _VALUE_TYPES

\* the collapsed value of what the path of the latest run found: null for
\* no node, the trimmed string for one attribute
Collapsed(t) ==
    LET found == last_run[t].found
    IN  IF found.list /\ found.items = <<>> THEN PyNone
        ELSE IF found.list /\ Len(found.items) = 1 /\ found.items[1].el = 0
        THEN PyStr(Strip(found.items[1].s))
        ELSE last_run[t].out.str_value

\* the frame of t is right behind the query of the latest run
BehindLatestRun(t) ==
    /\ pc[t] = "loading"
    /\ stack[t] # <<>>
    /\ Top(t).m <= Len(Top(t).matches)
    /\ Top(t).matches[Top(t).m] = last_run[t].element
    /\ Top(t).q > 1
    /\ TopMapping(t).compiled[Top(t).q - 1] = last_run[t].query

\* C20: each evaluation of a field whose kind is a registered filter calls
\* the filter exactly once, with the collapsed value: the trimmed string, or
\* null when the path matches nothing (there is no guard for null); the
\* value of the field is what the filter returns, unchanged, and what the
\* filter raises leaves the call; the filter is not called when the path
\* returns more than one node.
C20_FilterCalledOnceWithCollapsedValue ==
    \A t \in Threads :
        RanFilter(t) =>
            IF RanMany(t)
            THEN /\ last_run[t].out.called = <<>>
                 /\ last_run[t].out.err.kind = "multiple_elements"
            ELSE LET name     == last_run[t].query.value_type
                     returned_by_filter ==
                         IF name = T_foo THEN foo_filter(Collapsed(t))
                         ELSE min_age_filter(Collapsed(t))
                     attr     == last_run[t].query.attr
                 IN  /\ last_run[t].out.called = <<Collapsed(t)>>
                     /\ last_run[t].out.err = returned_by_filter.err
                     /\ last_run[t].out.value = returned_by_filter.value
                     /\ last_run[t].out.err.kind # "none" =>
                           pc[t] = "raised" /\ error[t] = returned_by_filter.err
                     /\ BehindLatestRun(t) =>
                           /\ last_run[t].out.err.kind = "none"
                           /\ attr \in DOMAIN Top(t).data
                           /\ Top(t).data[attr] = returned_by_filter.value

\* a filter was called with null for a path that matched nothing, and the
\* field has the value the filter returned for it, which is not null
C20_Witness ==
    \E t \in Threads :
        /\ RanFilter(t) /\ RanEmpty(t)
        /\ last_run[t].out.called = <<PyNone>>
        /\ BehindLatestRun(t)
        /\ ~IsNone(Top(t).data[last_run[t].query.attr])

\* a filter was called with the trimmed string of an attribute
C20_WitnessString ==
    \E t \in Threads :
        /\ RanFilter(t)
        /\ Len(last_run[t].found.items) = 1
        /\ last_run[t].found.items[1].el = 0
        /\ last_run[t].found.items[1].s # Strip(last_run[t].found.items[1].s)
        /\ BehindLatestRun(t)

\* a load call that runs alone, as one evaluation of load_file: the registry,
\* the create calls, the result list and the exception of the call so far
Run(_objects, cs, res, err) ==
    [_objects |-> _objects, calls |-> cs, result |-> res, err |-> err]

RECURSIVE RunMatches(_, _, _, _, _, _, _, _)
RECURSIVE RunQueries(_, _, _, _, _, _, _, _)

\* the run after query.run of the q-th query returned (or raised)
AfterQuery(r, err, value, doc, path, match_el, q, internal_data, data, tl) ==
    LET attr == AttrOf(QueryAt(_mappings, path).compiled[q])
    IN  RunQueries([r EXCEPT !.err = err], doc, path, match_el, q + 1,
                   IF StartsWithUnderscore(attr)
                   THEN SetItem(internal_data, attr, value) ELSE internal_data,
                   IF StartsWithUnderscore(attr)
                   THEN data ELSE SetItem(data, attr, value),
                   tl)

\* the value of a run of an _XPathQuery, passed on
AfterXPath(r, out, doc, path, match_el, q, internal_data, data, tl) ==
    AfterQuery(r, out.err, out.value, doc, path, match_el, q, internal_data,
               data, tl)

\* the value of a nested _load_mapping, passed on
AfterNested(nested, doc, path, match_el, q, internal_data, data, tl) ==
    AfterQuery(nested.run, nested.run.err, nested.value, doc, path, match_el,
               q, internal_data, data, tl)

\* the loop over mapping.compiled for one matched element, from the q-th
\* query on: [run, internal_data, data]
RunQueries(r, doc, path, match_el, q, internal_data, data, tl) ==
    IF r.err.kind # "none" \/ q > Len(QueryAt(_mappings, path).compiled)
    THEN [run |-> r, internal_data |-> internal_data, data |-> data]
    ELSE IF QueryAt(_mappings, path).compiled[q].cls = "xpath"
    THEN AfterXPath(r, XPathQueryRun(QueryAt(_mappings, path).compiled[q],
                                     _filters, r._objects, doc, match_el),
                    doc, path, match_el, q, internal_data, data, tl)
    ELSE AfterNested(RunMatches(r, doc, match_el, Append(path, q),
                                MatchesOf(doc, Append(path, q), match_el), 1,
                                <<>>, tl),
                     doc, path, match_el, q, internal_data, data, tl)

\* create, the two appends and add_object for the i-th match, and the rest
\* of the loop over the matches
AfterQueries(a, doc, element, path, matches, i, objects, tl) ==
    IF a.run.err.kind # "none" THEN [run |-> a.run, value |-> PyNone]
    ELSE LET mapping == QueryAt(_mappings, path)
             obj     == <<tl[1], tl[2], Len(a.run.calls) + 1>>
             added   == add_object(a.run._objects, doc, matches[i],
                                   mapping.mapping_type, a.internal_data[K_id], obj)
         IN  RunMatches(Run(IF mapping.has_id THEN added._objects
                            ELSE a.run._objects,
                            Append(a.run.calls,
                                   [type |-> mapping.mapping_type,
                                    fields |-> a.data,
                                    obj |-> obj,
                                    element |-> matches[i],
                                    internal_data |-> a.internal_data,
                                    mapping |-> path]),
                            Append(a.run.result, obj),
                            IF mapping.has_id THEN added.err ELSE NoError),
                        doc, element, path, matches, i + 1,
                        Append(objects, obj), tl)

\* the return statement of _load_mapping in the run
Returning(r, ret) == [run |-> [r EXCEPT !.err = ret.err], value |-> ret.value]

\* _load_mapping for the mapping at the path on the element, from the i-th
\* match on: [run, value]
RunMatches(r, doc, element, path, matches, i, objects, tl) ==
    IF r.err.kind # "none" THEN [run |-> r, value |-> PyNone]
    ELSE IF i > Len(matches)
    THEN Returning(r, ReturnValue(doc, element,
                                  QueryAt(_mappings, path).returns_list, objects))
    ELSE AfterQueries(RunQueries(r, doc, path, matches[i], 1, <<>>, <<>>, tl),
                      doc, element, path, matches, i, objects, tl)

\* the loop of load_file from the i-th top-level mapping on
RECURSIVE RunFrom(_, _, _, _)
RunFrom(r, doc, i, tl) ==
    IF r.err.kind # "none" \/ i > Len(_mappings) THEN r
    ELSE RunFrom(RunMatches(r, doc, 0, <<i>>, MatchesOf(doc, <<i>>, 0), 1,
                            <<>>, tl).run,
                 doc, i + 1, tl)

\* the load call of t on its document, run alone
Alone(t) == RunFrom(Run(<<>>, <<>>, <<>>, NoError), root[t], 1, <<t, loads[t]>>)

\* the outcome of the load call of t is the outcome of the run
SameOutcome(t, r) ==
    /\ IsPrefix(calls[t], r.calls)
    /\ Finished(t) =>
          /\ calls[t] = r.calls
          /\ error[t] = r.err
          /\ pc[t] = (IF r.err.kind = "none" THEN "returned" ELSE "raised")
          /\ returned[t] = (IF r.err.kind = "none" THEN PyList(r.result) ELSE PyNone)

\* C19: for two load calls on one mapper whose steps are interleaved in any
\* order, the outcome of each call (the list returned or the error) and its
\* sequence of create calls are those of the call run alone; a load call
\* does not change the compiled mappings, the index of the types or the
\* table of the filters.
C19_InterleavedCallsAsAlone ==
    /\ \A t \in Threads : pc[t] # "idle" => SameOutcome(t, Alone(t))
    /\ phase = "ready" =>
          /\ _mappings = CompileAll(<<>>, args.filters, args.mappings, <<>>).mappings
          /\ _types = CompileAll(<<>>, args.filters, args.mappings, <<>>).types
          /\ _filters = args.filters

\* two load calls are under way at once, each has made a create call, and
\* both have registered the same identifier for the same type
C19_Witness ==
    \E t, u \in Threads :
        /\ t # u
        /\ pc[t] = "loading" /\ pc[u] = "loading"
        /\ stack[t] # <<>> /\ stack[u] # <<>>
        /\ calls[t] # <<>> /\ calls[u] # <<>>
        /\ DOMAIN state[t] \cap DOMAIN state[u] # {}

\* the paths of the compiled mappings, at every depth
MappingPaths ==
    {p \in PathsOf(_mappings, <<>>) : QueryAt(_mappings, p).cls = "mapping"}

\* the nested mappings among the fields of the mapping at the path
NestedOf(path) == NestedFields(path, TRUE) \cup NestedFields(path, FALSE)

\* the name of the q-th field of the mapping at the path
NameOf(path, q) == AttrOf(QueryAt(_mappings, Append(path, q)))

\* the create calls of t for the elements the nested field q of the mapping
\* at the path selects under the element
NestedCalls(t, path, q, element) ==
    LET found == MatchesUnder(t, Append(path, q), element)
    IN  UNION {CallsFor(t, Append(path, q), found[k]) : k \in DOMAIN found}

\* the registry of t is the one the latest run of a value query saw: the
\* frame is right behind the query, or the run raised and ended the call
SinceLatestRun(t) ==
    /\ last_run[t].ran
    /\ Len(calls[t]) = last_run[t].created
    /\ \/ BehindLatestRun(t)
       \/ pc[t] = "raised" /\ error[t] = last_run[t].out.err

\* C21: for each matched element the fields are evaluated in ascending order
\* of their names (the order the compiled queries are kept in), whatever the
\* order of the elements in the document: the objects of a nested field with
\* a smaller name are created, and stand in the result, before those of a
\* nested field with a larger name, and when a reference field is evaluated
\* the nested fields of the element with smaller names have created and
\* registered all their objects, those with larger names none.
C21_FieldsInNameOrder ==
    \A t \in Threads :
        /\ \A path \in MappingPaths :
              \A q1, q2 \in DOMAIN QueryAt(_mappings, path).compiled :
                 q1 < q2 => StrLess(NameOf(path, q1), NameOf(path, q2))
        /\ \A path \in MappingPaths : \A element \in DOMAIN root[t] :
              \A q1, q2 \in NestedOf(path) :
                 StrLess(NameOf(path, q1), NameOf(path, q2)) =>
                    \A j \in NestedCalls(t, path, q1, element) :
                       \A k \in NestedCalls(t, path, q2, element) :
                          /\ j < k
                          /\ \A list \in Lists(t) :
                                \A x \in IndicesOf(list, calls[t][j].obj) :
                                   \A y \in IndicesOf(list, calls[t][k].obj) : x < y
        /\ RanReference(t) /\ SinceLatestRun(t) =>
              \A q \in NestedOf(last_run[t].mapping) :
                 LET path  == last_run[t].mapping
                     found == MatchesUnder(t, Append(path, q), last_run[t].element)
                     type  == QueryAt(_mappings, Append(path, q)).mapping_type
                 IN  IF StrLess(NameOf(path, q), last_run[t].query.attr)
                     THEN \A k \in DOMAIN found :
                             \E j \in CallsFor(t, Append(path, q), found[k]) :
                                QueryAt(_mappings, Append(path, q)).has_id =>
                                   LET key == <<type, calls[t][j].internal_data[K_id]>>
                                   IN  /\ key \in DOMAIN state[t]
                                       /\ state[t][key] = calls[t][j].obj
                     ELSE NestedCalls(t, path, q, last_run[t].element) = {}

\* load returned: the object of a nested field stands before the object of a
\* nested field with a larger name whose element comes first in the
\* document, and the reference field between the two has the object the
\* first one registered
C21_Witness ==
    \E t \in Threads : \E i, j, k \in DOMAIN calls[t] :
        /\ pc[t] = "returned"
        /\ j < k /\ k < i
        /\ calls[t][j].element > calls[t][k].element
        /\ calls[t][k].element > calls[t][i].element
        /\ Len(calls[t][j].mapping) = 2 /\ Len(calls[t][k].mapping) = 2
        /\ calls[t][j].mapping[2] < calls[t][k].mapping[2]
        /\ N_n \in DOMAIN calls[t][i].fields
        /\ calls[t][i].fields[N_n].k = "obj"
        /\ calls[t][i].fields[N_n].v = calls[t][j].obj

\* a reference field was evaluated on an element with matches of a nested
\* field of a larger name, for which nothing was created yet
C21_WitnessLater ==
    \E t \in Threads :
        /\ RanReference(t) /\ SinceLatestRun(t)
        /\ \E q \in NestedOf(last_run[t].mapping) :
              /\ q > last_run[t].q
              /\ MatchesUnder(t, Append(last_run[t].mapping, q),
                              last_run[t].element) # <<>>

\* the characters the XML text of the document is written with: its markup,
\* tags, attribute names and values, and texts
DocChars(doc) ==
    {"<", ">", "/", "=", "\"", " "}
    \cup UNION {Range(doc[n].tag) : n \in DOMAIN doc}
    \cup UNION {UNION {Range(a) \cup Range(doc[n].attrs[a]) :
                          a \in DOMAIN doc[n].attrs} : n \in DOMAIN doc}
    \cup UNION {IF IsNone(doc[n].text) THEN {} ELSE Range(doc[n].text.v) :
                   n \in DOMAIN doc}

\* the path of the latest query run of t yielded exactly one result: one
\* node, or the scalar of a computed expression
RanOne(t) ==
    /\ last_run[t].ran
    /\ last_run[t].found.list => Len(last_run[t].found.items) = 1

\* the one result of the latest run is an element that has no text
RanTextless(t) ==
    /\ RanOne(t)
    /\ last_run[t].found.list
    /\ last_run[t].found.items[1].el # 0
    /\ IsNone(root[t][last_run[t].found.items[1].el].text)

\* the textual content of the one result of the latest run: the value of the
\* attribute, the text of the element, the text of the computed scalar
OwnText(t) ==
    LET found == last_run[t].found
    IN  IF ~found.list THEN TextType(found.scalar)
        ELSE IF found.items[1].el = 0 THEN found.items[1].s
        ELSE root[t][found.items[1].el].text.v

\* C22: for a scalar field whose path yields exactly one result, the
\* collapsed value is the textual content of that result with the
\* surrounding whitespace trimmed, whether the result is an attribute value,
\* a computed scalar or an element with text; for an element that has no
\* text, the collapsed value has no character that the document does not
\* have.
C22_CollapsedIsOwnText ==
    \A t \in Threads :
        RanOne(t) =>
            LET str_value == last_run[t].out.str_value
            IN  IF RanTextless(t)
                THEN IsNone(str_value) \/ Range(str_value.v) \subseteq DocChars(root[t])
                ELSE str_value = PyStr(Strip(OwnText(t)))

\* C22, the results that have a text of their own: the collapsed value is
\* that text trimmed
C22_TextIsTrimmed ==
    \A t \in Threads :
        RanOne(t) /\ ~RanTextless(t) =>
            last_run[t].out.str_value = PyStr(Strip(OwnText(t)))

\* an element with surrounding whitespace in its text was collapsed
C22_Witness ==
    \E t \in Threads :
        /\ RanOne(t)
        /\ last_run[t].found.list
        /\ last_run[t].found.items[1].el # 0
        /\ ~RanTextless(t)
        /\ OwnText(t) # Strip(OwnText(t))
        /\ Strip(OwnText(t)) # <<>>

\* an element without text was collapsed to the string None, which the
\* typed field of kind string got as its value
C22_WitnessTextless ==
    \E t \in Threads :
        /\ RanTextless(t)
        /\ last_run[t].out.str_value = PyStr(S_None)
        /\ "N" \notin DocChars(root[t])
        /\ last_run[t].query.value_type = T_string
        /\ BehindLatestRun(t)
        /\ Top(t).data[last_run[t].query.attr] = PyStr(S_None)

\* the load call of t failed in add_object
FailedInAddObject(t) ==
    /\ pc[t] = "raised"
    /\ error[t].kind \in {"null_id", "duplicate_id"}

\* the singleton nested mappings and enclosing elements the
\* nested-multiple-matches error of t can come from: the mapping matched
\* more than one element under the element the error names
FailedNested(t) ==
    {pe \in PathsOf(_mappings, <<>>) \X DOMAIN root[t] :
        /\ QueryAt(_mappings, pe[1]).cls = "mapping"
        /\ ~QueryAt(_mappings, pe[1]).returns_list
        /\ RaisedOn(t, "nested_multiple", pe[2])
        /\ Len(MatchesUnder(t, pe[1], pe[2])) > 1}

\* the path of the mapping that encloses the nested mapping at the path
Enclosing(path) == SubSeq(path, 1, Len(path) - 1)

\* C23: the checks of the identifier and of the number of nested matches
\* run after the construction.  When a load call fails with the null-id or
\* the duplicate-id error for an element, the factory was already called for
\* that element and its object is already appended to the result list; when
\* it fails with the nested-multiple-matches error, the factory was already
\* called for every element the nested mapping matched, and each is
\* registered when the nested type declares _id, while no object was ever
\* constructed for the enclosing element.
C23_ChecksRunAfterConstruction ==
    \A t \in Threads :
        /\ FailedInAddObject(t) =>
              /\ calls[t] # <<>>
              /\ LET c == calls[t][Len(calls[t])]
                 IN  /\ RaisedOn(t, error[t].kind, c.element)
                     /\ QueryAt(_mappings, c.mapping).has_id
                     /\ result[t] # <<>>
                     /\ result[t][Len(result[t])] = c.obj
        /\ pc[t] = "raised" /\ error[t].kind = "nested_multiple" =>
              /\ FailedNested(t) # {}
              /\ \A pe \in FailedNested(t) :
                    LET nested == QueryAt(_mappings, pe[1])
                        found  == MatchesUnder(t, pe[1], pe[2])
                    IN  /\ \A k \in DOMAIN found :
                              \E j \in CallsFor(t, pe[1], found[k]) :
                                 /\ \E x \in DOMAIN result[t] :
                                       result[t][x] = calls[t][j].obj
                                 /\ nested.has_id =>
                                       LET key == <<nested.mapping_type,
                                                    calls[t][j].internal_data[K_id]>>
                                       IN  /\ key \in DOMAIN state[t]
                                           /\ state[t][key] = calls[t][j].obj
                        /\ CallsFor(t, Enclosing(pe[1]), pe[2]) = {}

\* a load call failed with the duplicate-id error for an element whose
\* object is the last of the result list, after the object that has the
\* identifier
C23_Witness ==
    \E t \in Threads :
        /\ pc[t] = "raised"
        /\ error[t].kind = "duplicate_id"
        /\ Len(result[t]) > 1
        /\ result[t][Len(result[t])] = calls[t][Len(calls[t])].obj

\* a load call failed with the null-id error after the create call
C23_WitnessNull ==
    \E t \in Threads :
        /\ pc[t] = "raised"
        /\ error[t].kind = "null_id"
        /\ RaisedOn(t, "null_id", calls[t][Len(calls[t])].element)

\* a load call failed with the nested-multiple-matches error after the two
\* nested elements, of a type that declares _id, were created and registered
C23_WitnessNested ==
    \E t \in Threads :
        \E pe \in FailedNested(t) :
            /\ QueryAt(_mappings, pe[1]).has_id
            /\ Len(calls[t]) >= 2
            /\ DOMAIN state[t] # {}

\* the create call j of t was followed by an add_object that raised
FailedToRegister(t, j) ==
    /\ j = Len(calls[t])
    /\ pc[t] = "raised"
    /\ \/ error[t].kind \in {"null_id", "duplicate_id"}
       \/ /\ error[t].kind = "TypeError"
          /\ calls[t][j].internal_data[K_id].k = "list"

\* the create calls of t whose object add_object has put in the registry:
\* those of the mappings that declare _id, but for one whose add_object raised
Registrations(t) ==
    {j \in DOMAIN calls[t] :
        /\ QueryAt(_mappings, calls[t][j].mapping).has_id
        /\ ~FailedToRegister(t, j)}

\* the key the create call j of t is registered under
KeyOf(t, j) == <<calls[t][j].type, calls[t][j].internal_data[K_id]>>

\* C24: in every state of a load call, no entry of the identity registry
\* has a null identifier; each (type name, identifier) key was registered
\* exactly once and maps to the object the factory returned for the element
\* that registered it, and every registration made in the call is still
\* there (no entry is overwritten or removed); only types that declare _id
\* have entries; and every registered object is in the result list.
C24_RegistryInvariant ==
    \A t \in Threads :
        /\ \A key \in DOMAIN state[t] :
              /\ ~IsNone(key[2])
              /\ Cardinality({j \in Registrations(t) : KeyOf(t, j) = key}) = 1
              /\ \A j \in Registrations(t) :
                    KeyOf(t, j) = key => state[t][key] = calls[t][j].obj
              /\ _types[key[1]].has_id
              /\ \E x \in DOMAIN result[t] : result[t][x] = state[t][key]
        /\ \A j \in Registrations(t) :
              /\ KeyOf(t, j) \in DOMAIN state[t]
              /\ state[t][KeyOf(t, j)] = calls[t][j].obj

\* two types have each registered an object under the same identifier, and
\* an object of a type without _id is in the result list
C24_Witness ==
    \E t \in Threads :
        /\ \E k1, k2 \in DOMAIN state[t] : k1[1] # k2[1] /\ k1[2] = k2[2]
        /\ \E j \in DOMAIN calls[t] : j \notin Registrations(t)

\* the registry is as it was before a registration that failed with the
\* duplicate-id error
C24_WitnessDuplicate ==
    \E t \in Threads :
        /\ pc[t] = "raised"
        /\ error[t].kind = "duplicate_id"
        /\ FailedToRegister(t, Len(calls[t]))
        /\ KeyOf(t, Len(calls[t])) \in DOMAIN state[t]

\* the number of steps of the kind among the steps from..to of the traversal
Count(ev, kind, from, to) == Cardinality({m \in from..to : ev[m].ev = kind})

\* the specifications that are entered and not finished at the step i: the
\* one that contains the step and those that enclose it
OpenAt(ev, i) ==
    {j \in 1..(i - 1) :
        /\ ev[j].ev = "enter"
        /\ \A m \in (j + 1)..(i - 1) :
              Count(ev, "done", j + 1, m) <= Count(ev, "enter", j + 1, m)}

\* the step i compiles a field whose kind names the type of the
\* specification that contains it or of one that encloses it
RefersToOpenType(ev, i) ==
    /\ IsReference(ev[i])
    /\ \E j \in OpenAt(ev, i) : ev[j].type = ev[i].kind.v

\* the step i compiles a field whose kind names a type with _id nested
\* under a field of the same specification that sorts earlier
RefersToEarlierNested(ev, i) ==
    /\ IsReference(ev[i])
    /\ ~RefersToOpenType(ev, i)
    /\ \E j \in 1..(i - 1) :
          /\ ev[j].ev = "done"
          /\ ev[j].type = ev[i].kind.v
          /\ ev[j].has_id
          \* the type is finished inside the specification of the field
          /\ Max(OpenAt(ev, i)) \in OpenAt(ev, j)

\* the compilation gets to the step i: nothing fails before it
GetsTo(ev, i) == Problems(ev) \cap 1..(i - 1) = {}

\* C25: a type enters the type index only after all of its own fields,
\* nested specifications included, have been compiled.  A field whose kind
\* names the type of the specification that contains it, or the type of a
\* specification that encloses it, always fails compilation with the
\* unknown-value-type error, also when that type declares _id; a type
\* nested under a field that sorts earlier in the same specification can be
\* referenced by a field that sorts later.
C25_TypeIndexedAfterItsFields ==
    phase # "new" =>
        LET ev == EventsFrom(args.mappings, 1)
        IN  \A i \in DOMAIN ev :
               /\ RefersToOpenType(ev, i) =>
                     /\ phase = "failed"
                     /\ GetsTo(ev, i) =>
                           syntax_error = SyntaxError("unknown_value_type",
                                                      ev[i].type, ev[i].attr)
               /\ RefersToEarlierNested(ev, i) /\ GetsTo(ev, i) =>
                     /\ syntax_error.kind \notin
                           {"unknown_value_type", "invalid_value_type"}
                     /\ phase = "ready" =>
                           \E path \in PathsOf(_mappings, <<>>) :
                              LET query == QueryAt(_mappings, path)
                              IN  /\ query.cls = "xpath"
                                  /\ query.mapping_type = ev[i].type
                                  /\ query.attr = ev[i].attr
                                  /\ query.value_type = ev[i].kind.v

\* construction failed with the unknown-value-type error on a field whose
\* kind names the type of its own specification
C25_WitnessSelf ==
    /\ phase = "failed"
    /\ LET ev == EventsFrom(args.mappings, 1)
       IN  \E i \in DOMAIN ev :
              /\ RefersToOpenType(ev, i) /\ GetsTo(ev, i)
              /\ ev[i].type = ev[i].kind.v

\* construction failed with the unknown-value-type error on a field whose
\* kind names the type of an enclosing specification
C25_WitnessEnclosing ==
    /\ phase = "failed"
    /\ LET ev == EventsFrom(args.mappings, 1)
       IN  \E i \in DOMAIN ev :
              /\ RefersToOpenType(ev, i) /\ GetsTo(ev, i)
              /\ ev[i].type # ev[i].kind.v

\* a mapper was constructed with a field that references a type nested
\* under an earlier field of the same specification
C25_WitnessNested ==
    /\ phase = "ready"
    /\ LET ev == EventsFrom(args.mappings, 1)
       IN  \E i \in DOMAIN ev : RefersToEarlierNested(ev, i) /\ GetsTo(ev, i)

====
